---- MODULE Spec2Model ----
(***************************************************************************)
(* The GlastarJS render engine (privacy-glass-renderer.ts) as a state      *)
(* machine: construction, updateConfig, resize, connectAudioStream,        *)
(* start, stop, dispose, the render tick, and the host's frame queue and   *)
(* image loader.                                                           *)
(*                                                                         *)
(* Encoding of JavaScript values.  A value that may be undefined is a set  *)
(* of at most one element: None is undefined, Some(x) is the value x.  An  *)
(* object (a config, a patch, a gradient) is a function from the keys it   *)
(* carries to such values, so "key absent" and "key present with value     *)
(* undefined" are different objects, as they are to the spread operator    *)
(* and to hasOwnProperty.  Fractional numbers (opacity, sensitivity, ...)  *)
(* are in hundredths; sizes are in pixels; times are in milliseconds.      *)
(***************************************************************************)
EXTENDS Integers, FiniteSets, Sequences, TLC

None == {}
Some(x) == {x}
Val(o) == CHOOSE x \in o : TRUE

\* obj.key: a key the object does not carry reads as undefined.
Get(obj, k) == IF k \in DOMAIN obj THEN obj[k] ELSE None

\* a || d, for a number, a string, a boolean; a ?? d.
OrNum(o, d) == IF o # None /\ o # Some(0) THEN o ELSE d
OrStr(o, d) == IF o # None /\ o # Some("") THEN o ELSE d
OrBool(o, d) == IF o = Some(TRUE) THEN o ELSE d
Nullish(o, d) == IF o # None THEN o ELSE d

\* The unsigned-long width/height attribute of a canvas element: assigning
\* undefined stores 0.
CanvasDim(o) == IF o = None THEN 0 ELSE Val(o)

EmptyObj == [k \in {} |-> None]

ShapeForcesSquare(shape) == shape = Some("circle") \/ shape = Some("square")

----------------------------------------------------------------------------
\* Construction: the stored config.

ConstructorWidth(caller) == OrNum(Get(caller, "width"), Some(800))

ConstructorHeight(caller) ==
    IF ShapeForcesSquare(Get(caller, "avatarShape"))
    THEN ConstructorWidth(caller)
    ELSE OrNum(Get(caller, "height"), Some(600))

ConstructorGradient(caller) ==
    LET g == Get(caller, "backgroundGradient")
        sub(k) == IF g = None THEN None ELSE Get(Val(g), k)
    IN  Some([centerColor |-> OrStr(sub("centerColor"), Some("#4A90E2")),
              edgeColor   |-> OrStr(sub("edgeColor"), Some("#1a1a2e")),
              angle       |-> Nullish(sub("angle"), Some(45))])

\* this.config = {...} of the constructor.
ConstructorConfig(caller) ==
    [width |-> ConstructorWidth(caller),
     height |-> ConstructorHeight(caller),
     texture |-> OrStr(Get(caller, "texture"), Some("arctic")),
     glassOpacity |-> OrNum(Get(caller, "glassOpacity"), Some(95)),
     refractionStrength |-> OrNum(Get(caller, "refractionStrength"), Some(100)),
     blurAmount |-> OrNum(Get(caller, "blurAmount"), Some(300)),
     fps |-> OrNum(Get(caller, "fps"), Some(60)),
     avatarColor |-> OrStr(Get(caller, "avatarColor"), Some("#4A90E2")),
     avatarSize |-> OrNum(Get(caller, "avatarSize"), Some(80)),
     avatarSensitivity |-> OrNum(Get(caller, "avatarSensitivity"), Some(100)),
     avatarExpansion |-> OrNum(Get(caller, "avatarExpansion"), Some(200)),
     avatarSmoothing |-> OrNum(Get(caller, "avatarSmoothing"), Some(25)),
     avatarFadeWithAudio |-> OrBool(Get(caller, "avatarFadeWithAudio"), Some(FALSE)),
     avatarState |-> OrStr(Get(caller, "avatarState"), Some("speaking")),
     avatarShape |-> OrStr(Get(caller, "avatarShape"), Some("square")),
     backgroundColor |-> OrStr(Get(caller, "backgroundColor"), Some("#000000")),
     backgroundType |-> OrStr(Get(caller, "backgroundType"), Some("color")),
     backgroundGradient |-> ConstructorGradient(caller),
     backgroundImage |-> Get(caller, "backgroundImage"),
     backgroundRotation |-> Nullish(Get(caller, "backgroundRotation"), Some(TRUE)),
     backgroundRotationSpeed |->
         IF Get(caller, "backgroundRotation") = Some(FALSE)
         THEN Some(0)
         ELSE Nullish(Get(caller, "backgroundRotationSpeed"), Some(10)),
     backgroundScale |-> OrNum(Get(caller, "backgroundScale"), Some(100))]

----------------------------------------------------------------------------
\* resize(width, height?): the height it applies, and the stored config after it.

ResizePlainHeight(cfg, width, height) == OrNum(height, width)

ResizeHeight(cfg, width, height) ==
    IF ShapeForcesSquare(cfg.avatarShape) THEN width ELSE OrNum(height, width)

ResizeConfig(cfg, width, height) ==
    [cfg EXCEPT !.width = width, !.height = ResizeHeight(cfg, width, height)]

----------------------------------------------------------------------------
\* updateConfig(patch): the merged config (before the resize it may trigger).

MergeGradientWholesale(cfg, patch) ==
    LET g == Get(patch, "backgroundGradient")
    IN  IF g # None
        THEN Some([k \in {"centerColor", "edgeColor", "angle"} |-> Get(Val(g), k)])
        ELSE cfg.backgroundGradient

MergeGradient(cfg, patch) ==
    LET g == Get(patch, "backgroundGradient")
        prior == Val(cfg.backgroundGradient)
    IN  IF g # None
        THEN Some([centerColor |-> OrStr(Get(Val(g), "centerColor"), prior.centerColor),
                   edgeColor   |-> OrStr(Get(Val(g), "edgeColor"), prior.edgeColor),
                   angle       |-> Nullish(Get(Val(g), "angle"), prior.angle)])
        ELSE cfg.backgroundGradient

MergeConfig(cfg, patch) ==
    [k \in DOMAIN cfg \cup DOMAIN patch |->
        IF k = "backgroundGradient" THEN MergeGradient(cfg, patch)
        ELSE IF k \in DOMAIN patch THEN patch[k]
        ELSE cfg[k]]

BackgroundKeys ==
    {"backgroundColor", "backgroundType", "backgroundGradient", "backgroundImage",
     "backgroundRotation", "backgroundRotationSpeed", "backgroundScale"}

PatchCarriesSize(patch) == Get(patch, "width") # None \/ Get(patch, "height") # None

\* The stored config after updateConfig(patch), the resize included.
UpdateConfigConfig(cfg, patch) ==
    LET merged == MergeConfig(cfg, patch)
    IN  IF PatchCarriesSize(patch)
        THEN ResizeConfig(merged, merged.width, merged.height)
        ELSE merged

----------------------------------------------------------------------------
\* Bounds of the model.

\* Executions of the render body (each adds 16 to thinkingAnimationTime and
\* takes one frame handle).
MaxRenders == 2
\* AudioAnalyzer objects created by connectAudioStream.
MaxAnalyzers == 2
\* Image elements created by loadBackgroundImage.
MaxImages == 1

VARIABLES
    \* the engine's fields
    config, canvas, backgroundCanvas,
    program, positionBuffer, texCoordBuffer, backgroundTexture,
    audioAnalyzer, animationId, isDisposed, backgroundImageElement,
    smoothedAudioLevel, backgroundDirty, lastBackgroundConfig,
    textureNeedsUpdate, lastAvatarSize, thinkingAnimationTime,
    currentState, targetState, stateTransitionProgress,
    stateTransitionStartTime,
    \* the host: pending animation-frame callbacks, the next frame handle,
    \* the image elements ever created, the clock (Date.now(), ms since
    \* construction)
    frames, nextHandle, images, now,
    \* bookkeeping for the properties: delete calls per GPU object, whether
    \* stop() ran since the last start(), the partial config given to the
    \* constructor, whether a tick was scheduled when dispose() first ran, and
    \* what the last operation did
    released, stopped, callerConfig, disposedWhileScheduled, fx,
    \* the React component around the engine, when there is one
    wrapper

engineVars ==
    <<config, canvas, backgroundCanvas, program, positionBuffer, texCoordBuffer,
      backgroundTexture, audioAnalyzer, animationId, isDisposed,
      backgroundImageElement, smoothedAudioLevel, backgroundDirty,
      lastBackgroundConfig, textureNeedsUpdate, lastAvatarSize,
      thinkingAnimationTime, currentState, targetState, stateTransitionProgress,
      stateTransitionStartTime>>
hostVars == <<frames, nextHandle, images, now>>
vars ==
    <<engineVars, hostVars, released, stopped, callerConfig,
      disposedWhileScheduled, fx, wrapper>>

gpuVars == <<program, positionBuffer, texCoordBuffer, backgroundTexture>>
animVars ==
    <<smoothedAudioLevel, lastBackgroundConfig, textureNeedsUpdate, lastAvatarSize,
      thinkingAnimationTime, currentState, targetState, stateTransitionProgress,
      stateTransitionStartTime>>

\* What an operation did: the GPU calls it issued, the audio samples it pulled
\* (and the level it passed to drawAvatar), what it drew on the composition
\* canvas, the frames it requested, the resources it created; and the state it
\* found on entry; the error it threw, if any; the audio level it applied
\* after gating.  Some fields run over the whole life of the engine: the
\* number of drawBackground calls so far, whether updateConfig or resize has
\* been called, what the composition canvas holds (the background last
\* painted on it, and the number of visible avatar layers painted since), whether the
\* number of AudioAnalyzer objects created so far, the radius of the speaking
\* circle in the texture last uploaded, whether the constructor
\* returned an engine, and the platform it ran on.
Effects(op) ==
    [op |-> op, entryDisposed |-> isDisposed, entryScheduled |-> animationId # None,
     entryStopped |-> stopped, patch |-> EmptyObj,
     invoked |-> FALSE, rendered |-> FALSE,
     gpu |-> {}, audio |-> 0, sample |-> 0, applied |-> 0, draws |-> <<>>,
     painted |-> 0, prims |-> << >>,
     sched |-> 0, created |-> {}, error |-> None,
     bgDraws |-> fx.bgDraws, reconfigured |-> fx.reconfigured,
     canvasBackground |-> fx.canvasBackground, canvasAvatars |-> fx.canvasAvatars,
     analyzers |-> fx.analyzers, uploadedAvatarSize |-> fx.uploadedAvatarSize,
     constructed |-> fx.constructed, env |-> fx.env]

----------------------------------------------------------------------------
\* The per-tick routine.  Audio levels and the transition progress are in
\* thousandths, avatar sizes in thousandths of a pixel; divisions round down.

Abs(x) == IF x < 0 THEN -x ELSE x
Min(a, b) == IF a < b THEN a ELSE b

\* t < 0.5 ? 4 t^3 : 1 - (-2 t + 2)^3 / 2, on thousandths.  The result is
\* 1 only for t = 1 and 0 only for t = 0, as it is in floating point.
EaseRaw(t) ==
    IF t < 500
    THEN (4 * t * t * t) \div 1000000
    ELSE 1000 - (((2000 - 2 * t) * (2000 - 2 * t) * (2000 - 2 * t)) \div 2000000)

easeTriangle(t) == IF t >= 1000 THEN 1000 ELSE IF t <= 500 THEN t ELSE 1000 - t

easeInOutCubic(t) ==
    IF t <= 0 THEN 0
    ELSE IF t >= 1000 THEN 1000
    ELSE IF EaseRaw(t) < 1 THEN 1
    ELSE IF EaseRaw(t) > 999 THEN 999
    ELSE EaseRaw(t)

\* stateTransitionDuration, ms.
stateTransitionDuration == 500

\* updateStateTransition() without `this.currentState = this.targetState` at
\* the start of a transition.
updateStateTransitionKeepCurrent(time) ==
    LET begins == config.avatarState # targetState
        cur0 == currentState
        tgt0 == IF begins THEN config.avatarState ELSE targetState
        prog0 == IF begins THEN 0 ELSE stateTransitionProgress
        start0 == IF begins THEN time ELSE stateTransitionStartTime
        elapsed == time - start0
        prog1 == easeInOutCubic(Min(1000, (elapsed * 1000) \div stateTransitionDuration))
    IN  IF prog0 < 1000
        THEN [current |-> IF prog1 = 1000 THEN tgt0 ELSE cur0, target |-> tgt0,
              progress |-> prog1, startTime |-> start0, began |-> begins,
              texture |-> TRUE]
        ELSE [current |-> cur0, target |-> tgt0, progress |-> prog0,
              startTime |-> start0, began |-> begins, texture |-> FALSE]

\* updateStateTransition() without the completion step (`if
\* (this.stateTransitionProgress === 1) this.currentState = this.targetState`).
updateStateTransitionNoCompletion(time) ==
    LET begins == config.avatarState # targetState
        cur0 == IF begins THEN targetState ELSE currentState
        tgt0 == IF begins THEN config.avatarState ELSE targetState
        prog0 == IF begins THEN 0 ELSE stateTransitionProgress
        start0 == IF begins THEN time ELSE stateTransitionStartTime
        elapsed == time - start0
        prog1 == easeInOutCubic(Min(1000, (elapsed * 1000) \div stateTransitionDuration))
    IN  IF prog0 < 1000
        THEN [current |-> cur0, target |-> tgt0,
              progress |-> prog1, startTime |-> start0, began |-> begins,
              texture |-> TRUE]
        ELSE [current |-> cur0, target |-> tgt0, progress |-> prog0,
              startTime |-> start0, began |-> begins, texture |-> FALSE]

\* updateStateTransition(), run when Date.now() is `time`: the transition
\* fields after it, and whether it set textureNeedsUpdate.
updateStateTransition(time) ==
    LET begins == config.avatarState # targetState
        cur0 == IF begins THEN targetState ELSE currentState
        tgt0 == IF begins THEN config.avatarState ELSE targetState
        prog0 == IF begins THEN 0 ELSE stateTransitionProgress
        start0 == IF begins THEN time ELSE stateTransitionStartTime
        elapsed == time - start0
        prog1 == easeInOutCubic(Min(1000, (elapsed * 1000) \div stateTransitionDuration))
    IN  IF prog0 < 1000
        THEN [current |-> IF prog1 = 1000 THEN tgt0 ELSE cur0, target |-> tgt0,
              progress |-> prog1, startTime |-> start0, began |-> begins,
              texture |-> TRUE]
        ELSE [current |-> cur0, target |-> tgt0, progress |-> prog0,
              startTime |-> start0, began |-> begins, texture |-> FALSE]

\* The gating without the first branch: the sample fades in with the
\* transition into speaking.
EffectiveAudioLevelFadeIn(tr, audioLevel) ==
    IF tr.target = Some("speaking") THEN (audioLevel * tr.progress) \div 1000
    ELSE IF tr.current = Some("speaking") /\ tr.progress < 1000
         THEN (audioLevel * (1000 - tr.progress)) \div 1000
         ELSE 0

\* No gating: the raw sample is applied in every state.
EffectiveAudioLevelUngated(tr, audioLevel) == audioLevel

\* The audio level drawAvatar applies, from the raw sample.
EffectiveAudioLevel(tr, audioLevel) ==
    IF tr.target = Some("speaking") THEN audioLevel
    ELSE IF tr.current = Some("speaking") /\ tr.progress < 1000
         THEN (audioLevel * (1000 - tr.progress)) \div 1000
         ELSE 0

\* smoothedAudioLevel += (targetLevel - smoothedAudioLevel) * avatarSmoothing
SmoothedLevelAccumulated(effective) ==
    LET targetLevel == (effective * Val(config.avatarSensitivity)) \div 100
    IN  smoothedAudioLevel + (targetLevel * Val(config.avatarSmoothing)) \div 100

SmoothedLevel(effective) ==
    LET targetLevel == (effective * Val(config.avatarSensitivity)) \div 100
    IN  smoothedAudioLevel
          + ((targetLevel - smoothedAudioLevel) * Val(config.avatarSmoothing)) \div 100

\* The object drawAvatar serialises to detect a changed background.
BackgroundSignature ==
    [type |-> config.backgroundType, color |-> config.backgroundColor,
     gradient |-> config.backgroundGradient, image |-> config.backgroundImage,
     rotation |-> config.backgroundRotation, speed |-> config.backgroundRotationSpeed,
     scale |-> config.backgroundScale, state |-> config.avatarState]

BackgroundAlwaysRedraw == TRUE

BackgroundConfigChanged ==
    \/ lastBackgroundConfig # Some(BackgroundSignature)
    \/ config.backgroundRotation = Some(TRUE)
    \/ config.avatarState = Some("thinking")

BackgroundUnlessThinking ==
    \/ backgroundDirty
    \/ lastBackgroundConfig # Some(BackgroundSignature)
    \/ config.backgroundRotation = Some(TRUE)

BackgroundNeedsRedraw ==
    \/ backgroundDirty
    \/ lastBackgroundConfig # Some(BackgroundSignature)
    \/ config.backgroundRotation = Some(TRUE)
    \/ config.avatarState = Some("thinking")

\* drawBackground(): what it paints.
drawBackgroundNoFallback ==
    IF config.backgroundType = Some("image")
    THEN <<"background", Some("image")>>
    ELSE <<"background", config.backgroundType>>

drawBackground ==
    IF config.backgroundType = Some("image")
    THEN IF backgroundImageElement # None
            /\ images[Val(backgroundImageElement)].status # "loading"
         THEN <<"background", Some("image")>>
         ELSE <<"background", Some("fallback")>>
    ELSE <<"background", config.backgroundType>>

\* The avatar layers drawAvatar draws, in order: <<state, opacity>>.
AvatarLayers(tr) ==
    IF tr.progress = 1000
    THEN << <<tr.target, 1000>> >>
    ELSE (IF tr.current # tr.target
          THEN << <<tr.current, 1000 - tr.progress>> >> ELSE << >>)
         \o << <<tr.target, tr.progress>> >>

\* drawSpeakingAvatar: the radius, and whether the change is significant.
ExpandedSizeStale(level) ==
    LET baseSize == Val(config.avatarSize)
        maxExpansionSize == (baseSize * Val(config.avatarExpansion)) \div 100
    IN  baseSize * 1000 + smoothedAudioLevel * (maxExpansionSize - baseSize)

ExpandedSize(level) ==
    LET baseSize == Val(config.avatarSize)
        maxExpansionSize == (baseSize * Val(config.avatarExpansion)) \div 100
    IN  baseSize * 1000 + level * (maxExpansionSize - baseSize)

\* |avatarOpacity - 1| > 0.01 with avatarOpacity = clamp((8 level)^0.3, 0, 1):
\* (8 level)^0.3 < 0.99 exactly when level < 0.12088...
FadeSignificant(level) ==
    config.avatarFadeWithAudio = Some(TRUE) /\ level <= 120

SpeakingSignificantRadiusOnly(level) ==
    Abs(ExpandedSize(level) - lastAvatarSize) > 500

SpeakingSignificant(level) ==
    \/ Abs(ExpandedSize(level) - lastAvatarSize) > 500
    \/ FadeSignificant(level)

\* Whether the draw routines of the layers set textureNeedsUpdate: the
\* listening and the thinking routine always do, the speaking routine after a
\* significant change.
LayerDrawn(layers, st) == \E i \in 1..Len(layers) : layers[i][1] = Some(st)

AvatarMarksTextureSpeakingOnly(layers, level) ==
    LayerDrawn(layers, "speaking") /\ SpeakingSignificant(level)

AvatarMarksTexture(layers, level) ==
    \/ LayerDrawn(layers, "listening")
    \/ LayerDrawn(layers, "thinking")
    \/ LayerDrawn(layers, "speaking") /\ SpeakingSignificant(level)

\* Whether an avatar layer puts pixels on the composition canvas: the
\* listening avatar draws nothing, a layer of opacity 0 is invisible, and the
\* speaking circle fades to opacity 0 at level 0 when avatarFadeWithAudio is
\* set.
Paints(layer, level) ==
    /\ layer[1] \in {Some("speaking"), Some("thinking")}
    /\ layer[2] > 0
    /\ (layer[1] = Some("speaking") /\ config.avatarFadeWithAudio = Some(TRUE))
          => level > 0

\* drawThinkingBorderCircle / drawThinkingBorderSquare when the animation clock
\* reads `clock`, on a composition canvas of `size`: where the moving segment
\* is, how long it is and how many trailing segments follow it.  The circle's
\* angles are in millionths of a radian, the square's lengths in tenths of a
\* pixel.  Speed, length and trail are the routines' local constants.
TwoPi == 6283185

\* x % 0 in JavaScript; a remainder by a negative number has the sign of the
\* dividend, which is never negative here.
NaN == -1

drawThinkingBorderCircle(clock) ==
    [position |-> (clock * 1500) % TwoPi, segment |-> 942478, trail |-> 8,
     borderWidth |-> 6]

drawThinkingBorderSquare(clock, size) ==
    LET padding == 10
        perimeter == ((size.width - padding * 2) + (size.height - padding * 2)) * 2
    IN  [position |-> IF perimeter = 0 THEN NaN
                      ELSE (clock * 8) % Abs(perimeter * 10),
         segment |-> (perimeter * 10 * 15) \div 100,
         trail |-> 10, borderWidth |-> 6]

drawThinkingBorder(clock, size) ==
    IF config.avatarShape = Some("circle")
    THEN drawThinkingBorderCircle(clock)
    ELSE drawThinkingBorderSquare(clock, size)

\* ctx.globalAlpha while a layer is drawn: the context's default 1 in the
\* settled branch, the layer's opacity in the blend branch.
GlobalAlpha(tr, layer) == IF tr.progress = 1000 THEN 1000 ELSE layer[2]

\* What the draw routine of a layer puts on the composition canvas: nothing
\* in the listening state, the gradient circle in the speaking state, the
\* border in the thinking state (`width` is its line width).  `blend` is the opacity the routine received
\* and multiplied into the alpha of its colours, `globalAlpha` the context's
\* alpha at that moment.
LayerPrimitives(tr, layer, level, clock, size) ==
    IF layer[1] = Some("speaking")
    THEN << [state |-> layer[1], globalAlpha |-> GlobalAlpha(tr, layer),
             blend |-> layer[2], radius |-> ExpandedSize(level), width |-> 0,
             position |-> 0, segment |-> 0, trail |-> 0] >>
    ELSE IF layer[1] = Some("thinking")
    THEN LET b == drawThinkingBorder(clock, size)
         IN  << [state |-> layer[1], globalAlpha |-> GlobalAlpha(tr, layer),
                 blend |-> layer[2], radius |-> 0, width |-> b.borderWidth,
                 position |-> b.position, segment |-> b.segment,
                 trail |-> b.trail] >>
    ELSE << >>

RECURSIVE Primitives(_, _, _, _, _)
Primitives(tr, layers, level, clock, size) ==
    IF layers = << >> THEN << >>
    ELSE LayerPrimitives(tr, Head(layers), level, clock, size)
         \o Primitives(tr, Tail(layers), level, clock, size)

\* The canvas multiplies the alpha of a colour by globalAlpha.
EffectiveOpacity(prim) == (prim.globalAlpha * prim.blend) \div 1000

\* drawAvatar(audioLevel), run when Date.now() is `time`: the fields after it
\* and what it drew.
drawAvatar(audioLevel, time) ==
    LET tr == updateStateTransition(time)
        level == SmoothedLevel(EffectiveAudioLevel(tr, audioLevel))
        redraw == BackgroundNeedsRedraw
        layers == AvatarLayers(tr)
        drawn(st) == \E i \in 1..Len(layers) : layers[i][1] = Some(st)
    IN  [thinkingAnimationTime |-> thinkingAnimationTime + 16,
         currentState |-> tr.current, targetState |-> tr.target,
         stateTransitionProgress |-> tr.progress,
         stateTransitionStartTime |-> tr.startTime,
         smoothedAudioLevel |-> level,
         backgroundDirty |-> IF redraw THEN FALSE ELSE backgroundDirty,
         lastBackgroundConfig |->
             IF redraw THEN Some(BackgroundSignature) ELSE lastBackgroundConfig,
         lastAvatarSize |->
             IF drawn("speaking") THEN ExpandedSize(level) ELSE lastAvatarSize,
         textureNeedsUpdate |->
             \/ textureNeedsUpdate
             \/ tr.texture
             \/ redraw
             \/ AvatarMarksTexture(layers, level),
         redraw |-> redraw,
         effective |-> EffectiveAudioLevel(tr, audioLevel),
         painted |-> Cardinality({i \in 1..Len(layers) : Paints(layers[i], level)}),
         prims |-> Primitives(tr, layers, level, thinkingAnimationTime + 16,
                              backgroundCanvas),
         draws |-> (IF redraw THEN <<drawBackground>> ELSE << >>)
                   \o [i \in 1..Len(layers) |->
                         <<"avatar", layers[i][1], layers[i][2]>>]]

----------------------------------------------------------------------------
\* The render callback.

\* if (!this.program || this.isDisposed) return;
RenderGuardNone == TRUE

RenderGuard == program /\ ~isDisposed

\* The level render() passes to drawAvatar: the sample getAudioData() returns
\* (one of `samples`), or 0 without an analyzer.
AudioInputs(samples) == IF audioAnalyzer THEN samples ELSE {0}

\* Whether the model lets the render body run once more, of at most `max` runs.
RenderAllowed(max) == ~RenderGuard \/ thinkingAnimationTime < 16 * max

\* render(), invoked when Date.now() is `time`, with the frame queue `pending`
\* and the effects record `f` of the operation that invokes it.
render(f, pending, audioLevel, time) ==
    IF ~RenderGuard
    THEN /\ UNCHANGED <<animVars, backgroundDirty, nextHandle>>
         /\ frames' = pending
         /\ animationId' = animationId
         /\ fx' = [f EXCEPT !.invoked = TRUE]
    ELSE LET d == drawAvatar(audioLevel, time)
         IN  /\ thinkingAnimationTime' = d.thinkingAnimationTime
             /\ currentState' = d.currentState
             /\ targetState' = d.targetState
             /\ stateTransitionProgress' = d.stateTransitionProgress
             /\ stateTransitionStartTime' = d.stateTransitionStartTime
             /\ smoothedAudioLevel' = d.smoothedAudioLevel
             /\ backgroundDirty' = d.backgroundDirty
             /\ lastBackgroundConfig' = d.lastBackgroundConfig
             /\ lastAvatarSize' = d.lastAvatarSize
             /\ textureNeedsUpdate' = FALSE
             /\ animationId' = Some(nextHandle)
             /\ frames' = pending \cup {nextHandle}
             /\ nextHandle' = nextHandle + 1
             /\ fx' = [f EXCEPT
                    !.invoked = TRUE, !.rendered = TRUE,
                    !.audio = IF audioAnalyzer THEN 1 ELSE 0,
                    !.sample = audioLevel,
                    !.applied = d.effective,
                    !.draws = d.draws,
                    !.bgDraws = IF d.redraw THEN @ + 1 ELSE @,
                    !.canvasBackground = IF d.redraw THEN Some(d.draws[1]) ELSE @,
                    !.painted = d.painted,
                    !.prims = d.prims,
                    !.uploadedAvatarSize =
                        IF d.textureNeedsUpdate THEN d.lastAvatarSize ELSE @,
                    !.canvasAvatars = (IF d.redraw THEN 0 ELSE @) + d.painted,
                    !.gpu = (IF d.textureNeedsUpdate
                             THEN {"bindTexture", "texImage2D"} ELSE {})
                            \cup {"clear", "useProgram", "uniform", "drawArrays"},
                    !.sched = 1]

\* The host runs a pending animation-frame callback, dt ms after the last event.
FrameDelays == {16}

Tick(h, dt, audioLevel) ==
    /\ h \in frames
    /\ now' = now + dt
    /\ LET f == Effects("tick")
       IN  render(f, frames \ {h}, audioLevel, now + dt)
    /\ UNCHANGED <<config, canvas, backgroundCanvas, gpuVars, audioAnalyzer,
                   isDisposed, backgroundImageElement, images, released, stopped,
                   callerConfig, disposedWhileScheduled>>

\* start(): if (!this.animationId) this.render();
StartGuardNone == TRUE

StartGuard == animationId = None

Start(audioLevel) ==
    /\ IF StartGuard
       THEN render(Effects("start"), frames, audioLevel, now)
       ELSE /\ fx' = Effects("start")
            /\ UNCHANGED <<animVars, backgroundDirty, nextHandle, frames, animationId>>
    /\ stopped' = FALSE
    /\ UNCHANGED <<config, canvas, backgroundCanvas, gpuVars, audioAnalyzer,
                   isDisposed, backgroundImageElement, images, now, released,
                   callerConfig, disposedWhileScheduled>>

\* cancelAnimationFrame(id): the frame queue without the cancelled callback.
CancelNothing(pending, id) == pending

cancelAnimationFrame(pending, id) == pending \ id

\* stop()
Stop ==
    /\ frames' = IF animationId # None
                 THEN cancelAnimationFrame(frames, animationId) ELSE frames
    /\ animationId' = None
    /\ stopped' = TRUE
    /\ fx' = Effects("stop")
    /\ UNCHANGED <<config, canvas, backgroundCanvas, gpuVars, audioAnalyzer,
                   isDisposed, backgroundImageElement, animVars, backgroundDirty,
                   nextHandle, images, now, released, callerConfig, disposedWhileScheduled>>

----------------------------------------------------------------------------
\* The background image.  An image element is a record: its src, whether
\* onload / onerror are attached, and the state of its load.

Detached(img) == [img EXCEPT !.onload = FALSE, !.onerror = FALSE]

\* onload = null; onerror = null; src = ''
CancelOnly(imgs, el) ==
    IF el = None THEN imgs
    ELSE [imgs EXCEPT ![Val(el)] = [@ EXCEPT !.src = "", !.status = "cancelled"]]

DetachAndCancel(imgs, el) ==
    IF el = None THEN imgs
    ELSE [imgs EXCEPT ![Val(el)] = [Detached(@) EXCEPT !.src = "", !.status = "cancelled"]]

NewImage(url) == [src |-> url, onload |-> TRUE, onerror |-> TRUE, status |-> "loading"]

LoadsImage(cfg) == cfg.backgroundImage # None /\ cfg.backgroundImage # Some("")

\* loadBackgroundImage() under config cfg: the image elements and
\* this.backgroundImageElement after it.
loadBackgroundImage(cfg) ==
    IF ~LoadsImage(cfg)
    THEN [images |-> DetachAndCancel(images, backgroundImageElement), element |-> None]
    ELSE [images |-> Append(DetachAndCancel(images, backgroundImageElement),
                            NewImage(Val(cfg.backgroundImage))),
          element |-> Some(Len(images) + 1)]

\* A load completion (load or error event) is delivered for an element whose
\* load is under way, or was under way when the engine blanked its src: the
\* event may already be queued then.
InFlight(img) == img.status \in {"loading", "cancelled"}

\* The load of image element i completes: onload runs (its body is empty).
ImageLoaded(i) ==
    /\ i \in 1..Len(images)
    /\ InFlight(images[i])
    /\ images' = [images EXCEPT ![i].status = "complete"]
    /\ fx' = [Effects("onload") EXCEPT !.invoked = images[i].onload]
    /\ UNCHANGED <<engineVars, frames, nextHandle, now, released, stopped, callerConfig, disposedWhileScheduled>>

\* The load of image element i fails: onerror, if attached, detaches and drops
\* the element the engine holds.
ImageFailed(i) ==
    /\ i \in 1..Len(images)
    /\ InFlight(images[i])
    /\ LET failed == [images EXCEPT ![i].status = "failed"]
       IN  IF images[i].onerror /\ backgroundImageElement # None
           THEN /\ images' = [failed EXCEPT ![Val(backgroundImageElement)] = Detached(@)]
                /\ backgroundImageElement' = None
           ELSE /\ images' = failed
                /\ UNCHANGED backgroundImageElement
    /\ fx' = [Effects("onerror") EXCEPT !.invoked = images[i].onerror]
    /\ UNCHANGED <<config, canvas, backgroundCanvas, gpuVars, audioAnalyzer,
                   animationId, isDisposed, animVars, backgroundDirty, frames,
                   nextHandle, now, released, stopped, callerConfig, disposedWhileScheduled>>

----------------------------------------------------------------------------
\* connectAudioStream(stream)
\* Whether the model lets connectAudioStream run, with at most `max`
\* AudioAnalyzer objects created over the engine's life.
ConnectAllowed(max) == audioAnalyzer \/ fx.analyzers < max

ConnectAudioStream ==
    /\ audioAnalyzer' = TRUE
    /\ fx' = [Effects("connectAudioStream") EXCEPT
                !.created = IF audioAnalyzer THEN {} ELSE {"audioAnalyzer"},
                !.analyzers = IF audioAnalyzer THEN @ ELSE @ + 1]
    /\ UNCHANGED <<config, canvas, backgroundCanvas, gpuVars, animationId,
                   isDisposed, backgroundImageElement, animVars, backgroundDirty,
                   hostVars, released, stopped, callerConfig, disposedWhileScheduled>>

\* resize(width, height)
Resize(width, height) ==
    LET effectiveHeight == ResizeHeight(config, width, height)
        size == [width |-> CanvasDim(width), height |-> CanvasDim(effectiveHeight)]
    IN  /\ canvas' = size
        /\ backgroundCanvas' = size
        /\ config' = ResizeConfig(config, width, height)
        /\ backgroundDirty' = TRUE
        /\ fx' = [Effects("resize") EXCEPT
                    !.reconfigured = TRUE,
                    !.canvasBackground = None,
                    !.canvasAvatars = 0,
                    !.gpu = {"viewport"},
                    !.patch = [width |-> width, height |-> height]]
        /\ UNCHANGED <<gpuVars, audioAnalyzer, animationId, isDisposed,
                       backgroundImageElement, animVars, hostVars, released,
                       stopped, callerConfig, disposedWhileScheduled>>

\* Whether the model lets updateConfig(patch) create one more image element,
\* of at most `max`.
ImageAllowed(patch, max) ==
    (Get(patch, "backgroundImage") # None /\ LoadsImage(MergeConfig(config, patch)))
    => Len(images) < max

\* updateConfig(patch)
UpdateConfig(patch) ==
    LET merged == MergeConfig(config, patch)
        resizes == PatchCarriesSize(patch)
        reloads == Get(patch, "backgroundImage") # None
        after == UpdateConfigConfig(config, patch)
        size == [width |-> CanvasDim(after.width), height |-> CanvasDim(after.height)]
        img == loadBackgroundImage(after)
    IN  /\ config' = after
        /\ backgroundDirty' =
               (backgroundDirty \/ resizes \/ DOMAIN patch \cap BackgroundKeys # {})
        /\ canvas' = IF resizes THEN size ELSE canvas
        /\ backgroundCanvas' = IF resizes THEN size ELSE backgroundCanvas
        /\ images' = IF reloads THEN img.images ELSE images
        /\ backgroundImageElement' =
               IF reloads THEN img.element ELSE backgroundImageElement
        /\ fx' = [Effects("updateConfig") EXCEPT
                    !.reconfigured = TRUE,
                    !.canvasBackground = IF resizes THEN None ELSE @,
                    !.canvasAvatars = IF resizes THEN 0 ELSE @,
                    !.patch = patch,
                    !.gpu = IF resizes THEN {"viewport"} ELSE {},
                    !.created = IF reloads /\ LoadsImage(after) THEN {"image"} ELSE {}]
        /\ UNCHANGED <<gpuVars, audioAnalyzer, animationId, isDisposed, animVars,
                       frames, nextHandle, now, released, stopped, callerConfig, disposedWhileScheduled>>

----------------------------------------------------------------------------
\* dispose()

\* if (this.x) { gl.deleteX(this.x); this.x = null; }: the delete calls made
\* for the object so far.
ReleaseAlways(held, count) == count + 1

ReleaseIfHeld(held, count) == IF held THEN count + 1 ELSE count

Dispose ==
    /\ isDisposed' = TRUE
    /\ frames' = IF animationId # None
                 THEN cancelAnimationFrame(frames, animationId) ELSE frames
    /\ animationId' = None
    /\ stopped' = TRUE
    /\ audioAnalyzer' = FALSE
    /\ released' =
          [program |-> ReleaseIfHeld(program, released.program),
           positionBuffer |-> ReleaseIfHeld(positionBuffer, released.positionBuffer),
           texCoordBuffer |-> ReleaseIfHeld(texCoordBuffer, released.texCoordBuffer),
           backgroundTexture |->
               ReleaseIfHeld(backgroundTexture, released.backgroundTexture)]
    /\ program' = FALSE
    /\ positionBuffer' = FALSE
    /\ texCoordBuffer' = FALSE
    /\ backgroundTexture' = FALSE
    /\ images' = DetachAndCancel(images, backgroundImageElement)
    /\ backgroundImageElement' = None
    /\ backgroundCanvas' = [width |-> 0, height |-> 0]
    /\ fx' = [Effects("dispose") EXCEPT
                !.canvasBackground = None,
                !.canvasAvatars = 0,
                !.gpu = {g \in {"deleteProgram", "deleteBuffer", "deleteTexture"} :
                            \/ g = "deleteProgram" /\ released'.program # released.program
                            \/ g = "deleteBuffer"
                               /\ \/ released'.positionBuffer # released.positionBuffer
                                  \/ released'.texCoordBuffer # released.texCoordBuffer
                            \/ g = "deleteTexture"
                               /\ released'.backgroundTexture # released.backgroundTexture}]
    /\ disposedWhileScheduled' =
          IF isDisposed THEN disposedWhileScheduled ELSE animationId # None
    /\ UNCHANGED <<config, canvas, animVars, backgroundDirty, nextHandle, now,
                   callerConfig>>

----------------------------------------------------------------------------
\* The platform a constructor runs on: whether the surface hands out a WebGL
\* context, what gl.createShader and the compiler do with each of the two
\* shaders, whether gl.createProgram returns an object, and whether the
\* program links.
ShaderOutcomes == {"ok", "null", "compileError"}

Environments ==
    [context : BOOLEAN, vertexShader : ShaderOutcomes,
     fragmentShader : ShaderOutcomes, program : BOOLEAN, link : BOOLEAN]

HealthyEnv ==
    [context |-> TRUE, vertexShader |-> "ok", fragmentShader |-> "ok",
     program |-> TRUE, link |-> TRUE]

\* createShader: TRUE when it returns a shader, FALSE when it returns null
\* (no shader object, or a compile error).
createShader(outcome) ==
    IF outcome = "null" THEN FALSE
    ELSE IF outcome = "compileError" THEN FALSE
    ELSE TRUE

\* setupWebGL without the test of LINK_STATUS.
setupWebGLNoLinkCheck(env) ==
    LET vertexShader == createShader(env.vertexShader)
        fragmentShader == createShader(env.fragmentShader)
    IN  IF ~vertexShader \/ ~fragmentShader THEN Some("Failed to create shaders")
        ELSE IF ~env.program THEN Some("Failed to create WebGL program")
        ELSE None

\* The error setupWebGL throws, if any.
setupWebGL(env) ==
    LET vertexShader == createShader(env.vertexShader)
        fragmentShader == createShader(env.fragmentShader)
    IN  IF ~vertexShader \/ ~fragmentShader THEN Some("Failed to create shaders")
        ELSE IF ~env.program THEN Some("Failed to create WebGL program")
        ELSE IF ~env.link THEN Some("Program linking error")
        ELSE None

\* The GPU objects gl.create* handed out during construction on `env` that no
\* gl.delete* call has released when the constructor returns or throws.
\* createShader deletes the shader that fails to compile; setupWebGL deletes
\* the two shaders after a successful link only.
AllocatedAfterConstruction(env) ==
    LET shaders == {s \in {"vertexShader", "fragmentShader"} : env[s] = "ok"}
    IN  IF ~env.context THEN {}
        ELSE IF setupWebGL(env) = Some("Failed to create shaders") THEN shaders
        ELSE IF setupWebGL(env) = Some("Failed to create WebGL program") THEN shaders
        ELSE IF setupWebGL(env) = Some("Program linking error")
        THEN shaders \cup {"program"}
        ELSE {"program", "positionBuffer", "texCoordBuffer", "backgroundTexture"}

\* The error the constructor throws, if any.
ConstructorError(env) ==
    IF ~env.context THEN Some("WebGL not supported") ELSE setupWebGL(env)

\* Construction.  The constructor fills the config, sizes the composition
\* canvas from it, and setupWebGL() ends with resize(config.width,
\* config.height).  It starts no image load and no tick.
ConstructedOn(caller, env) ==
    LET filled == ConstructorConfig(caller)
        height == ResizeHeight(filled, filled.width, filled.height)
        size == [width |-> CanvasDim(filled.width), height |-> CanvasDim(height)]
    IN  /\ callerConfig = caller
        /\ config = ResizeConfig(filled, filled.width, filled.height)
        /\ canvas = size
        /\ backgroundCanvas = size
        /\ program = TRUE
        /\ positionBuffer = TRUE
        /\ texCoordBuffer = TRUE
        /\ backgroundTexture = TRUE
        /\ audioAnalyzer = FALSE
        /\ animationId = None
        /\ isDisposed = FALSE
        /\ backgroundImageElement = None
        /\ smoothedAudioLevel = 0
        /\ backgroundDirty = TRUE
        /\ lastBackgroundConfig = None
        /\ textureNeedsUpdate = TRUE
        /\ lastAvatarSize = 0
        /\ thinkingAnimationTime = 0
        /\ currentState = Some("speaking")
        /\ targetState = Some("speaking")
        /\ stateTransitionProgress = 1000
        /\ stateTransitionStartTime = 0
        /\ frames = {}
        /\ nextHandle = 1
        /\ images = << >>
        /\ now = 0
        /\ released = [program |-> 0, positionBuffer |-> 0, texCoordBuffer |-> 0,
                       backgroundTexture |-> 0]
        /\ stopped = FALSE
        /\ disposedWhileScheduled = FALSE
        /\ fx = [op |-> "constructor", entryDisposed |-> FALSE,
                 entryScheduled |-> FALSE, entryStopped |-> FALSE,
                 patch |-> caller,
                 invoked |-> FALSE, rendered |-> FALSE,
                 gpu |-> {"createProgram", "createBuffer", "viewport", "createTexture"},
                 audio |-> 0, sample |-> 0, applied |-> 0, draws |-> << >>,
                 painted |-> 0, prims |-> << >>,
                 sched |-> 0, created |-> {}, error |-> None,
                 bgDraws |-> 0, reconfigured |-> FALSE,
                 canvasBackground |-> None, canvasAvatars |-> 0,
                 analyzers |-> 0, uploadedAvatarSize |-> 0,
                 constructed |-> TRUE, env |-> env]

\* Construction on a platform where nothing fails.
Constructed(caller) == ConstructedOn(caller, HealthyEnv)

\* The surface's own size, which the constructor has not touched when it
\* throws: resize() is the last statement of setupWebGL.
SurfaceSize == [width |-> 300, height |-> 150]

\* A constructor that throws: the fields are as the statements before the
\* throw left them, and the caller gets no engine.
Thrown(caller, env) ==
    LET filled == ConstructorConfig(caller)
    IN  /\ callerConfig = caller
        /\ config = filled
        /\ canvas = SurfaceSize
        /\ backgroundCanvas =
              IF env.context
              THEN [width |-> CanvasDim(filled.width), height |-> CanvasDim(filled.height)]
              ELSE [width |-> 0, height |-> 0]
        /\ program = (ConstructorError(env) = Some("Program linking error"))
        /\ positionBuffer = FALSE
        /\ texCoordBuffer = FALSE
        /\ backgroundTexture = FALSE
        /\ audioAnalyzer = FALSE
        /\ animationId = None
        /\ isDisposed = FALSE
        /\ backgroundImageElement = None
        /\ smoothedAudioLevel = 0
        /\ backgroundDirty = TRUE
        /\ lastBackgroundConfig = None
        /\ textureNeedsUpdate = TRUE
        /\ lastAvatarSize = 0
        /\ thinkingAnimationTime = 0
        /\ currentState = Some("speaking")
        /\ targetState = Some("speaking")
        /\ stateTransitionProgress = 1000
        /\ stateTransitionStartTime = 0
        /\ frames = {}
        /\ nextHandle = 1
        /\ images = << >>
        /\ now = 0
        /\ released = [program |-> 0, positionBuffer |-> 0, texCoordBuffer |-> 0,
                       backgroundTexture |-> 0]
        /\ stopped = FALSE
        /\ disposedWhileScheduled = FALSE
        /\ fx = [op |-> "constructor", entryDisposed |-> FALSE,
                 entryScheduled |-> FALSE, entryStopped |-> FALSE,
                 patch |-> caller,
                 invoked |-> FALSE, rendered |-> FALSE,
                 gpu |-> IF program THEN {"createProgram"} ELSE {},
                 audio |-> 0, sample |-> 0, applied |-> 0, draws |-> << >>,
                 painted |-> 0, prims |-> << >>,
                 sched |-> 0, created |-> {}, error |-> ConstructorError(env),
                 bgDraws |-> 0, reconfigured |-> FALSE,
                 canvasBackground |-> None, canvasAvatars |-> 0,
                 analyzers |-> 0, uploadedAvatarSize |-> 0,
                 constructed |-> FALSE, env |-> env]

\* new GlastarJS(canvas, caller) on a platform env.
Construct(caller, env) ==
    IF ConstructorError(env) = None
    THEN ConstructedOn(caller, env)
    ELSE Thrown(caller, env)

----------------------------------------------------------------------------
\* The React component Glasatar around the engine.  It holds rendererRef
\* (whether it refers to an engine), its current props (the audio stream and
\* the rest props, which are the partial config), and the effects React still
\* has to run for the last render, in order.  Counters record the
\* constructor, start() and dispose() calls it made and the re-renders.

NoWrapper ==
    [mounted |-> FALSE, rendererRef |-> FALSE,
     props |-> [audioStream |-> None, config |-> EmptyObj],
     pending |-> << >>, engines |-> 0, starts |-> 0, disposes |-> 0,
     renders |-> 0]

\* JSON.stringify of a flat object: keys whose value is undefined are left out.
Stringify(obj) ==
    [k \in {key \in DOMAIN obj : obj[key] # None} |-> obj[k]]

\* The dependency arrays of the four effects.
MountDepsConfig(props) == <<Stringify(props.config)>>

MountDeps(props) == << >>

AudioDeps(props) == <<props.audioStream>>

ConfigDeps(props) == <<Stringify(props.config)>>

ResizeDeps(props) == <<Get(props.config, "width"), Get(props.config, "height")>>

\* The effects of the first render: all four, the mount effect being split at
\* its two statements (the constructor call and start()).
EffectsOnMount == <<"construct", "start", "audio", "config", "resize">>

\* The effects React runs after a re-render from props prev to props next:
\* those whose dependencies changed, the cleanup of such an effect first.
EffectsAfterRender(prev, next) ==
    (IF MountDeps(prev) # MountDeps(next)
     THEN <<"cleanup", "construct", "start">> ELSE << >>)
    \o (IF AudioDeps(prev) # AudioDeps(next) THEN <<"audio">> ELSE << >>)
    \o (IF ConfigDeps(prev) # ConfigDeps(next) THEN <<"config">> ELSE << >>)
    \o (IF ResizeDeps(prev) # ResizeDeps(next) THEN <<"resize">> ELSE << >>)

\* Everything but the wrapper.
engineState ==
    <<engineVars, hostVars, released, stopped, callerConfig,
      disposedWhileScheduled, fx>>

\* new GlastarJS(canvasRef.current, config) run again by the component: the
\* fields of the engine rendererRef then refers to.  The host (its clock,
\* frame handles and image elements) goes on.
Reconstructed(caller, env) ==
    LET filled == ConstructorConfig(caller)
        height == ResizeHeight(filled, filled.width, filled.height)
        size == [width |-> CanvasDim(filled.width), height |-> CanvasDim(height)]
    IN  /\ callerConfig' = caller
        /\ config' = ResizeConfig(filled, filled.width, filled.height)
        /\ canvas' = size
        /\ backgroundCanvas' = size
        /\ program' = TRUE
        /\ positionBuffer' = TRUE
        /\ texCoordBuffer' = TRUE
        /\ backgroundTexture' = TRUE
        /\ audioAnalyzer' = FALSE
        /\ animationId' = None
        /\ isDisposed' = FALSE
        /\ backgroundImageElement' = None
        /\ smoothedAudioLevel' = 0
        /\ backgroundDirty' = TRUE
        /\ lastBackgroundConfig' = None
        /\ textureNeedsUpdate' = TRUE
        /\ lastAvatarSize' = 0
        /\ thinkingAnimationTime' = 0
        /\ currentState' = Some("speaking")
        /\ targetState' = Some("speaking")
        /\ stateTransitionProgress' = 1000
        /\ stateTransitionStartTime' = 0
        /\ frames' = frames
        /\ nextHandle' = nextHandle
        /\ images' = images
        /\ now' = now
        /\ released' = [program |-> 0, positionBuffer |-> 0, texCoordBuffer |-> 0,
                       backgroundTexture |-> 0]
        /\ stopped' = FALSE
        /\ disposedWhileScheduled' = FALSE
        /\ fx' = [op |-> "constructor", entryDisposed |-> FALSE,
                 entryScheduled |-> FALSE, entryStopped |-> FALSE,
                 patch |-> caller,
                 invoked |-> FALSE, rendered |-> FALSE,
                 gpu |-> {"createProgram", "createBuffer", "viewport", "createTexture"},
                 audio |-> 0, sample |-> 0, applied |-> 0, draws |-> << >>,
                 painted |-> 0, prims |-> << >>,
                 sched |-> 0, created |-> {}, error |-> None,
                 bgDraws |-> 0, reconfigured |-> FALSE,
                 canvasBackground |-> None, canvasAvatars |-> 0,
                 analyzers |-> 0, uploadedAvatarSize |-> 0,
                 constructed |-> TRUE, env |-> env]

\* The cleanup of the mount effect: dispose the engine and drop the
\* reference.  `after` is the component once the cleanup has been taken off
\* React's list.
Cleanup(after) ==
    IF wrapper.rendererRef
    THEN /\ Dispose
         /\ wrapper' = [after EXCEPT !.rendererRef = FALSE, !.disposes = @ + 1]
    ELSE /\ UNCHANGED engineState
         /\ wrapper' = after

\* React runs the next pending effect; a start() takes its audio sample from
\* `samples`.
RunEffect(samples) ==
    /\ wrapper.mounted
    /\ wrapper.pending # << >>
    /\ LET effect == Head(wrapper.pending)
           after == [wrapper EXCEPT !.pending = Tail(@)]
           config0 == wrapper.props.config
       IN  CASE effect = "cleanup" -> Cleanup(after)
             [] effect = "construct" ->
                  /\ Reconstructed(config0, HealthyEnv)
                  /\ wrapper' = [after EXCEPT !.rendererRef = TRUE, !.engines = @ + 1]
             [] effect = "start" ->
                  /\ \E a \in AudioInputs(samples) : Start(a)
                  /\ wrapper' = [after EXCEPT !.starts = @ + 1]
             [] effect = "audio" ->
                  IF wrapper.rendererRef /\ wrapper.props.audioStream # None
                  THEN ConnectAudioStream /\ wrapper' = after
                  ELSE UNCHANGED engineState /\ wrapper' = after
             [] effect = "config" ->
                  IF wrapper.rendererRef
                  THEN UpdateConfig(config0) /\ wrapper' = after
                  ELSE UNCHANGED engineState /\ wrapper' = after
             [] effect = "resize" ->
                  IF /\ wrapper.rendererRef
                     /\ Get(config0, "width") # None
                     /\ Get(config0, "height") # None
                  THEN Resize(Get(config0, "width"), Get(config0, "height"))
                       /\ wrapper' = after
                  ELSE UNCHANGED engineState /\ wrapper' = after

\* The parent renders the component again with props next.
Rerender(next) ==
    /\ wrapper.mounted
    /\ wrapper.pending = << >>
    /\ wrapper' = [wrapper EXCEPT !.props = next,
                                  !.pending = EffectsAfterRender(wrapper.props, next),
                                  !.renders = @ + 1]
    /\ UNCHANGED engineState

\* The component is unmounted: React runs the cleanup of the mount effect (the
\* other effects return none).
Unmount ==
    /\ wrapper.mounted
    /\ wrapper.pending = << >>
    /\ Cleanup([wrapper EXCEPT !.mounted = FALSE])

\* The component after its first render, when React has run the first
\* statement of the mount effect.
Mounted(props) ==
    /\ ConstructedOn(props.config, HealthyEnv)
    /\ wrapper = [mounted |-> TRUE, rendererRef |-> TRUE, props |-> props,
                  pending |-> Tail(EffectsOnMount), engines |-> 1, starts |-> 0,
                  disposes |-> 0, renders |-> 1]

----------------------------------------------------------------------------
\* The engine's life cycle: start, stop, ticks, dispose, with a few
\* configuration calls in between.  (The completions of image loads are
\* followed under SpecImage.)

LifeCallers == {EmptyObj, [backgroundRotation |-> Some(FALSE)]}

LifePatches ==
    {[width |-> Some(1200), height |-> Some(800)],
     [backgroundImage |-> Some("b.png"), backgroundType |-> Some("image")]}

LifeSizes == {<<Some(1000), Some(600)>>}

LifeSamples == {1000}

Init ==
    /\ wrapper = NoWrapper
    /\ \E caller \in LifeCallers : Constructed(caller)

Next ==
    \/ \E a \in AudioInputs(LifeSamples) :
          (StartGuard => RenderAllowed(MaxRenders)) /\ Start(a) /\ UNCHANGED wrapper
    \/ Stop /\ UNCHANGED wrapper
    \/ \E h \in frames, dt \in FrameDelays, a \in AudioInputs(LifeSamples) :
          RenderAllowed(MaxRenders) /\ Tick(h, dt, a) /\ UNCHANGED wrapper
    \/ Dispose /\ UNCHANGED wrapper
    \/ ConnectAllowed(MaxAnalyzers) /\ ConnectAudioStream /\ UNCHANGED wrapper
    \/ \E p \in LifePatches : ImageAllowed(p, MaxImages) /\ UpdateConfig(p) /\ UNCHANGED wrapper
    \/ \E sz \in LifeSizes : Resize(sz[1], sz[2]) /\ UNCHANGED wrapper

Spec == Init /\ [][Next]_vars

----------------------------------------------------------------------------
\* Construction on every platform, then the life cycle of the engines that
\* were constructed.  A constructor that throws hands out no engine, so no
\* method is ever called after it.

\* Executions of the render body under SpecConstruct.
MaxConstructRenders == 2

InitConstruct ==
    /\ wrapper = NoWrapper
    /\ \E caller \in LifeCallers, env \in Environments : Construct(caller, env)

NextConstruct ==
    \/ \E a \in AudioInputs(LifeSamples) :
          /\ fx.constructed
          /\ StartGuard => RenderAllowed(MaxConstructRenders)
          /\ Start(a) /\ UNCHANGED wrapper
    \/ fx.constructed /\ Stop /\ UNCHANGED wrapper
    \/ \E h \in frames, dt \in FrameDelays, a \in AudioInputs(LifeSamples) :
          fx.constructed /\ RenderAllowed(MaxConstructRenders) /\ Tick(h, dt, a) /\ UNCHANGED wrapper
    \/ fx.constructed /\ Dispose /\ UNCHANGED wrapper

SpecConstruct == InitConstruct /\ [][NextConstruct]_vars

----------------------------------------------------------------------------
\* The React component: its first render, the effects React runs, re-renders
\* with other props, the engine's ticks in between, and the unmount.

\* Renders of the component (the first included), and executions of the
\* render body, under SpecWrapper.
MaxWrapperRenders == 3
MaxWrapperTicks == 2

WrapperProps ==
    {[audioStream |-> stream, config |-> cfg] :
        stream \in {None, Some("s1"), Some("s2")},
        cfg \in {EmptyObj,
                 [width |-> Some(1200)],
                 [width |-> Some(1200), height |-> Some(800)],
                 [avatarState |-> Some("listening"), width |-> None]}}

InitWrapper == \E props \in WrapperProps : Mounted(props)

NextWrapper ==
    \/ RunEffect(LifeSamples)
    \/ \E next \in WrapperProps :
          wrapper.renders < MaxWrapperRenders /\ Rerender(next)
    \/ \E h \in frames, dt \in FrameDelays, a \in AudioInputs(LifeSamples) :
          /\ wrapper.pending = << >>
          /\ RenderAllowed(MaxWrapperTicks)
          /\ Tick(h, dt, a)
          /\ UNCHANGED wrapper
    \/ Unmount

SpecWrapper == InitWrapper /\ [][NextWrapper]_vars

----------------------------------------------------------------------------
\* A steady speaker: an engine with a static background and no smoothing, in
\* the speaking state, fed samples that differ by 0.005 (0.4 px of radius).

\* Executions of the render body under SpecSteady.
MaxSteadyTicks == 4

SteadyCallers ==
    {[backgroundRotation |-> Some(FALSE), avatarSmoothing |-> Some(100)],
     [backgroundRotation |-> Some(FALSE)]}

SteadySamples == {0, 5, 10}

InitSteady ==
    /\ wrapper = NoWrapper
    /\ \E caller \in SteadyCallers : Constructed(caller)

NextSteady ==
    \/ \E a \in AudioInputs(SteadySamples) :
          (StartGuard => RenderAllowed(MaxSteadyTicks)) /\ Start(a) /\ UNCHANGED wrapper
    \/ \E h \in frames, dt \in FrameDelays, a \in AudioInputs(SteadySamples) :
          RenderAllowed(MaxSteadyTicks) /\ Tick(h, dt, a) /\ UNCHANGED wrapper
    \/ ConnectAudioStream /\ UNCHANGED wrapper

SpecSteady == InitSteady /\ [][NextSteady]_vars

----------------------------------------------------------------------------
\* The state animations: engines constructed in the listening or the thinking
\* state, with and without the animation settings of GlasatarConfig, ticking
\* and changing state.

\* Executions of the render body under SpecAnimation.
MaxAnimationTicks == 3

\* Speeds and lengths in hundredths, the pulse speed in millionths.
AnimationCallers ==
    {[avatarState |-> Some("listening"), backgroundRotation |-> Some(FALSE)],
     [avatarState |-> Some("listening"), backgroundRotation |-> Some(FALSE),
      listeningPulseBase |-> Some(40), listeningPulseAmplitude |-> Some(10),
      listeningPulseSpeed |-> Some(4000)],
     [avatarState |-> Some("thinking")],
     [avatarState |-> Some("thinking"), avatarShape |-> Some("circle")],
     [avatarState |-> Some("thinking"), thinkingBorderSpeed |-> Some(160),
      thinkingBorderLength |-> Some(30), thinkingBorderTrailSegments |-> Some(5)]}

AnimationPatches ==
    {[avatarState |-> Some("listening")],
     [avatarState |-> Some("thinking")]}

AnimationDelays == {16, 500}

\* The value the caller configured for an animation setting, or the default
\* GlasatarConfig documents for it.
Configured(key, default) == Val(Nullish(Get(callerConfig, key), Some(default)))

InitAnimation ==
    /\ wrapper = NoWrapper
    /\ \E caller \in AnimationCallers : Constructed(caller)

NextAnimation ==
    \/ (StartGuard => RenderAllowed(MaxAnimationTicks)) /\ Start(0) /\ UNCHANGED wrapper
    \/ \E h \in frames, dt \in AnimationDelays :
          RenderAllowed(MaxAnimationTicks) /\ Tick(h, dt, 0) /\ UNCHANGED wrapper
    \/ \E p \in AnimationPatches : UpdateConfig(p) /\ UNCHANGED wrapper
    \/ Stop /\ UNCHANGED wrapper

SpecAnimation == InitAnimation /\ [][NextAnimation]_vars

----------------------------------------------------------------------------
\* Configuration: construction from a partial config, then updateConfig,
\* resize and dispose in any order.

CallerConfigs ==
    {EmptyObj,
     [width |-> Some(1000), height |-> Some(600)],
     [width |-> Some(1000), height |-> Some(600), avatarShape |-> Some("circle")],
     [glassOpacity |-> Some(0), blurAmount |-> Some(0)],
     [avatarSensitivity |-> Some(50), avatarColor |-> Some("#00ff00")]}

Patches ==
    {[avatarColor |-> Some("#ff0000")],
     [backgroundGradient |-> Some([edgeColor |-> Some("#00ff00")])],
     [backgroundGradient |-> Some([centerColor |-> Some("#0000ff"), angle |-> Some(0)])],
     [width |-> Some(1200)],
     [height |-> Some(800)],
     [width |-> Some(640), height |-> Some(480)],
     [glassOpacity |-> Some(0)],
     [texture |-> None, avatarShape |-> None],
     [avatarShape |-> Some("circle")]}

Sizes == {<<Some(1200), Some(800)>>, <<Some(300), None>>}

InitConfig ==
    /\ wrapper = NoWrapper
    /\ \E caller \in CallerConfigs : Constructed(caller)

NextConfig ==
    \/ \E p \in Patches : UpdateConfig(p) /\ UNCHANGED wrapper
    \/ \E sz \in Sizes : Resize(sz[1], sz[2]) /\ UNCHANGED wrapper
    \/ Dispose /\ UNCHANGED wrapper

SpecConfig == InitConfig /\ [][NextConfig]_vars

----------------------------------------------------------------------------
\* Sizes: updateConfig with patches that carry width or height (a key may be
\* present with the value undefined, as the component forwards an undefined
\* prop), resize and dispose in any order.

SizeCallers ==
    {EmptyObj,
     [width |-> Some(1000), height |-> Some(600)],
     [width |-> Some(400), avatarShape |-> Some("circle")]}

SizePatches ==
    {[width |-> Some(1200)],
     [height |-> Some(800)],
     [width |-> Some(640), height |-> Some(480)],
     [width |-> None],
     [avatarShape |-> None],
     [avatarShape |-> Some("circle")]}

InitSize ==
    /\ wrapper = NoWrapper
    /\ \E caller \in SizeCallers : Constructed(caller)

NextSize ==
    \/ \E p \in SizePatches : UpdateConfig(p) /\ UNCHANGED wrapper
    \/ \E sz \in Sizes : Resize(sz[1], sz[2]) /\ UNCHANGED wrapper
    \/ Dispose /\ UNCHANGED wrapper

SpecSize == InitSize /\ [][NextSize]_vars

----------------------------------------------------------------------------
\* Drawing: construction with several avatar states and audio settings, then
\* ticks at varying intervals and audio levels, with changes of the avatar
\* state in between.

\* Executions of the render body under SpecDraw.
MaxDrawTicks == 3

DrawCallers ==
    {EmptyObj,
     [backgroundRotation |-> Some(FALSE), avatarState |-> Some("listening"),
      avatarSensitivity |-> Some(50)],
     [backgroundRotation |-> Some(FALSE), avatarSmoothing |-> Some(100)],
     [backgroundRotation |-> Some(FALSE), avatarState |-> Some("thinking")],
     [backgroundRotation |-> Some(FALSE), avatarSmoothing |-> Some(100),
      avatarSensitivity |-> Some(200), avatarFadeWithAudio |-> Some(TRUE)]}

DrawPatches ==
    {[avatarState |-> Some("listening")],
     [avatarState |-> Some("speaking")]}

DrawSamples == {500, 1000}

DrawDelays == {16, 250, 500}

InitDraw ==
    /\ wrapper = NoWrapper
    /\ \E caller \in DrawCallers : Constructed(caller)

NextDraw ==
    \/ \E a \in AudioInputs(DrawSamples) :
          (StartGuard => RenderAllowed(MaxDrawTicks)) /\ Start(a) /\ UNCHANGED wrapper
    \/ \E h \in frames, dt \in DrawDelays, a \in AudioInputs(DrawSamples) :
          RenderAllowed(MaxDrawTicks) /\ Tick(h, dt, a) /\ UNCHANGED wrapper
    \/ ConnectAudioStream /\ UNCHANGED wrapper
    \/ \E p \in DrawPatches : UpdateConfig(p) /\ UNCHANGED wrapper

SpecDraw == InitDraw /\ [][NextDraw]_vars

----------------------------------------------------------------------------
\* The background image: updateConfig with image URLs and clears, the loads'
\* completions in any order, ticks, and dispose.

\* Image elements created, and executions of the render body, under SpecImage.
MaxImageLoads == 2
MaxImageTicks == 2

ImageCallers ==
    {[backgroundType |-> Some("image"), backgroundImage |-> Some("a.png"),
      backgroundRotation |-> Some(FALSE)]}

ImagePatches ==
    {[backgroundImage |-> Some("a.png"), backgroundType |-> Some("image")],
     [backgroundImage |-> Some("b.png")],
     [backgroundImage |-> None],
     [backgroundImage |-> Some("")]}

InitImage ==
    /\ wrapper = NoWrapper
    /\ \E caller \in ImageCallers : Constructed(caller)

NextImage ==
    \/ \E a \in AudioInputs(LifeSamples) :
          (StartGuard => RenderAllowed(MaxImageTicks)) /\ Start(a) /\ UNCHANGED wrapper
    \/ \E h \in frames, dt \in FrameDelays, a \in AudioInputs(LifeSamples) :
          RenderAllowed(MaxImageTicks) /\ Tick(h, dt, a) /\ UNCHANGED wrapper
    \/ \E p \in ImagePatches : ImageAllowed(p, MaxImageLoads) /\ UpdateConfig(p) /\ UNCHANGED wrapper
    \/ \E i \in 1..Len(images) : ImageLoaded(i) /\ UNCHANGED wrapper
    \/ \E i \in 1..Len(images) : ImageFailed(i) /\ UNCHANGED wrapper
    \/ Dispose /\ UNCHANGED wrapper

SpecImage == InitImage /\ [][NextImage]_vars

----------------------------------------------------------------------------
\* Properties of the life cycle (checked under Spec).

NoRenderWork ==
    /\ ~fx.rendered
    /\ fx.gpu = {}
    /\ fx.audio = 0
    /\ fx.draws = << >>
    /\ fx.sched = 0

\* C1: once dispose() has run, no tick stays scheduled, and an invocation of
\* the tick routine after it issues no GPU call, pulls no audio sample, draws
\* nothing on the composition canvas and schedules no further tick.
NoTicksAfterDispose ==
    /\ isDisposed => frames = {} /\ animationId = None
    /\ fx.op = "tick" => ~fx.entryDisposed
    /\ (fx.invoked /\ fx.entryDisposed) => NoRenderWork

\* dispose() ran while a tick was scheduled, and the tick routine was invoked
\* afterwards.
NoTicksAfterDisposeWitness ==
    /\ disposedWhileScheduled
    /\ fx.op = "start"
    /\ fx.invoked
    /\ fx.entryDisposed

\* C2: every GPU object is released at most once however often dispose() is
\* called, a repeated dispose() issues no GPU call, and after every dispose()
\* program, positionBuffer, texCoordBuffer, backgroundTexture, audioAnalyzer
\* and backgroundImageElement are null.
DisposeIdempotent ==
    /\ \A o \in DOMAIN released : released[o] <= 1
    /\ (fx.op = "dispose" /\ fx.entryDisposed) => fx.gpu = {}
    /\ fx.op = "dispose" =>
          /\ ~program
          /\ ~positionBuffer
          /\ ~texCoordBuffer
          /\ ~backgroundTexture
          /\ ~audioAnalyzer
          /\ backgroundImageElement = None

\* A second dispose() has run.
DisposeIdempotentWitness ==
    /\ fx.op = "dispose"
    /\ fx.entryDisposed
    /\ released.program = 1
    /\ released.backgroundTexture = 1

\* C3 (as claimed): after dispose(), updateConfig, resize, connectAudioStream
\* and start issue no GPU call, acquire no resource and leave the composition
\* canvas at zero size.
CallsAfterDisposeAreNoOps ==
    (fx.entryDisposed
       /\ fx.op \in {"updateConfig", "resize", "connectAudioStream", "start"})
    => /\ fx.gpu = {}
       /\ fx.created = {}
       /\ backgroundCanvas = [width |-> 0, height |-> 0]

\* C4: at most one tick is pending at any time (the one animationId names),
\* and a start() issued while a tick is scheduled neither runs the tick
\* routine nor schedules a tick.
StartIsNoOpWhileRunning ==
    /\ Cardinality(frames) <= 1
    /\ frames = animationId
    /\ (fx.op = "start" /\ fx.entryScheduled) => ~fx.invoked /\ NoRenderWork

\* start() was called while a tick was scheduled.
StartIsNoOpWhileRunningWitness ==
    /\ fx.op = "start"
    /\ fx.entryScheduled
    /\ Cardinality(frames) = 1

\* C5: from a stop() until the next start() no tick is pending and none
\* executes; stop() clears the handle; a stop() in the stopped state changes no
\* field of the engine and nothing in the host; a start() after a stop() runs
\* the tick routine and schedules the next tick.
StopHaltsTicks ==
    /\ [](stopped => frames = {} /\ animationId = None)
    /\ [](fx.op = "tick" => ~fx.entryStopped)
    /\ [][(stopped /\ fx'.op = "stop") => UNCHANGED <<engineVars, hostVars>>]_vars
    /\ []((fx.op = "start" /\ fx.entryStopped /\ ~fx.entryDisposed)
           => fx.rendered /\ fx.sched = 1 /\ animationId # None /\ frames = animationId)

\* stop() cancelled a pending tick, and a later start() resumed the loop.
StopHaltsTicksWitness ==
    /\ fx.op = "start"
    /\ fx.entryStopped
    /\ fx.rendered
    /\ thinkingAnimationTime = 32

\* C13: updateConfig leaves backgroundDirty set when its patch carries a
\* background-affecting key, a width or a height, and resize always leaves it
\* set; the flag is cleared by nothing but an executed tick; and a tick that
\* executes while the flag is set draws the background, clears the flag and
\* uploads the texture.
BackgroundDirtyUntilTick ==
    /\ []((/\ fx.op = "updateConfig"
           /\ \/ DOMAIN fx.patch \cap BackgroundKeys # {}
              \/ PatchCarriesSize(fx.patch))
          => backgroundDirty)
    /\ [](fx.op = "resize" => backgroundDirty)
    /\ [][(backgroundDirty /\ ~backgroundDirty') => fx'.rendered]_vars
    /\ [][(backgroundDirty /\ fx'.rendered)
          => /\ ~backgroundDirty'
             /\ fx'.bgDraws = fx.bgDraws + 1
             /\ fx'.draws[1][1] = "background"
             /\ {"bindTexture", "texImage2D"} \subseteq fx'.gpu]_vars

\* On a non-rotating engine whose background signature never changed, a
\* resize set the flag after the first draw, and the next tick drew the
\* background a second time, cleared the flag and uploaded the texture.
BackgroundDirtyUntilTickWitness ==
    /\ fx.op = "tick"
    /\ fx.reconfigured
    /\ config.backgroundRotation = Some(FALSE)
    /\ config.backgroundType = Some("color")
    /\ canvas.width = 1000
    /\ fx.bgDraws = 2
    /\ ~backgroundDirty
    /\ "texImage2D" \in fx.gpu

----------------------------------------------------------------------------
\* Properties of the configuration (checked under SpecConfig).

GradientKeys == {"centerColor", "edgeColor", "angle"}

\* C6: updateConfig(patch) leaves every field the patch does not name at its
\* prior value, except height when the patch carries width or height (then
\* height is the width under a square-forcing shape, and its prior value
\* otherwise); of the gradient it leaves every sub-field the patch's gradient
\* does not name at its prior value.
UpdateConfigChangesOnlyNamedFields ==
    [][fx'.op = "updateConfig" =>
        LET patch == fx'.patch
        IN  /\ DOMAIN config' = DOMAIN config \cup DOMAIN patch
            /\ \A k \in DOMAIN config \ DOMAIN patch :
                  IF k = "height" /\ PatchCarriesSize(patch)
                  THEN config'.height =
                         IF ShapeForcesSquare(config'.avatarShape)
                         THEN config'.width ELSE config.height
                  ELSE config'[k] = config[k]
            /\ "backgroundGradient" \in DOMAIN patch =>
                  IF patch.backgroundGradient = None
                  THEN config'.backgroundGradient = config.backgroundGradient
                  ELSE \A sub \in GradientKeys \ DOMAIN Val(patch.backgroundGradient) :
                         Val(config'.backgroundGradient)[sub]
                           = Val(config.backgroundGradient)[sub]
    ]_vars

\* A gradient patch naming only edgeColor was applied to a config whose
\* centerColor and angle had been changed before, and both survive.
UpdateConfigChangesOnlyNamedFieldsWitness ==
    /\ fx.op = "updateConfig"
    /\ DOMAIN fx.patch = {"backgroundGradient"}
    /\ DOMAIN Val(fx.patch.backgroundGradient) = {"edgeColor"}
    /\ config.backgroundGradient =
          Some([centerColor |-> Some("#0000ff"), edgeColor |-> Some("#00ff00"),
                angle |-> Some(0)])

\* C7 (as claimed): every field of the stored config other than
\* backgroundImage holds a defined value, after construction and after every
\* updateConfig.
ConfigFullyPopulated ==
    /\ \A k \in DOMAIN config \ {"backgroundImage"} : config[k] # None
    /\ \A sub \in GradientKeys : Val(config.backgroundGradient)[sub] # None

\* The engine as `new GlastarJS(canvas)` leaves its config.
DefaultConstructed ==
    LET filled == ConstructorConfig(EmptyObj)
    IN  ResizeConfig(filled, filled.width, filled.height)

\* C8 (as claimed): construction keeps every value the caller supplies (the
\* height, which the shape rule may force, aside), and the stored config
\* equals the one that construction without a config followed by
\* updateConfig(the same partial config) stores.
ConstructionKeepsSuppliedValues ==
    fx.op = "constructor" =>
        /\ \A k \in DOMAIN callerConfig \ {"backgroundGradient", "height"} :
              callerConfig[k] # None => config[k] = callerConfig[k]
        /\ config = UpdateConfigConfig(DefaultConstructed, callerConfig)

IsSquare(size) == size.height = size.width

\* C9: with avatarShape 'circle' or 'square' in the stored config, after
\* construction, after every resize and after every updateConfig that carries
\* width or height, the stored config, the drawing surface and the composition
\* canvas have height equal to width.
ShapeForcesSquareSizes ==
    (/\ ShapeForcesSquare(config.avatarShape)
     /\ \/ fx.op \in {"constructor", "resize"}
        \/ fx.op = "updateConfig" /\ PatchCarriesSize(fx.patch))
    => /\ config.height = config.width
       /\ IsSquare(canvas)
       /\ IsSquare(backgroundCanvas)

\* resize(1200, 800) ran on an engine whose shape is 'circle'.
ShapeForcesSquareSizesWitness ==
    /\ fx.op = "resize"
    /\ fx.patch = [width |-> Some(1200), height |-> Some(800)]
    /\ config.avatarShape = Some("circle")
    /\ canvas = [width |-> 1200, height |-> 1200]
    /\ ~isDisposed

\* C10 (as claimed): for an engine constructed without an avatarShape,
\* construction with {width: w, height: h} leaves the composition canvas w by
\* h, and resize(w, h) leaves the drawing surface and the composition canvas
\* w by h.
PlainEngineKeepsRequestedHeight ==
    LET w == Get(fx.patch, "width")
        h == Get(fx.patch, "height")
        requested == [width |-> CanvasDim(w), height |-> CanvasDim(h)]
    IN  (/\ "avatarShape" \notin DOMAIN callerConfig
         /\ ~isDisposed
         /\ fx.op \in {"constructor", "resize"}
         /\ w # None
         /\ h # None)
        => /\ backgroundCanvas = requested
           /\ fx.op = "resize" => canvas = requested

----------------------------------------------------------------------------
\* Properties of drawing (checked under SpecDraw).

\* Whether the last operation drew the background / an avatar in state st.
DrewBackground == \E i \in 1..Len(fx.draws) : fx.draws[i][1] = "background"
DrewAvatar(st) ==
    \E i \in 1..Len(fx.draws) : fx.draws[i][1] = "avatar" /\ fx.draws[i][2] = Some(st)

\* C11: with rotation disabled and an avatar state other than thinking, an
\* engine whose configuration has not been touched since construction has
\* drawn the background exactly once after any number of avatar draws, and a
\* tick that directly follows a tick (no configuration call in between) does
\* not redraw the background, whatever audio level it receives.
BackgroundDrawnOnce ==
    /\ []((/\ ~fx.reconfigured
           /\ config.backgroundRotation = Some(FALSE)
           /\ config.avatarState # Some("thinking")
           /\ thinkingAnimationTime >= 16)
          => fx.bgDraws = 1)
    /\ [][(/\ fx.rendered
           /\ fx'.rendered
           /\ config.backgroundRotation = Some(FALSE)
           /\ config.avatarState # Some("thinking"))
          => fx'.bgDraws = fx.bgDraws]_vars

\* Three avatar draws on an untouched static configuration, the last one with
\* a full-scale audio sample, and one background draw in all.
BackgroundDrawnOnceWitness ==
    /\ ~fx.reconfigured
    /\ config.backgroundRotation = Some(FALSE)
    /\ config.avatarState = Some("speaking")
    /\ thinkingAnimationTime >= 48
    /\ fx.op = "tick"
    /\ fx.sample = 1000
    /\ fx.bgDraws = 1

\* C12 (as claimed): an engine constructed with no configuration at all and
\* not reconfigured since has, after any number of avatar draws, drawn the
\* background exactly once (on the first draw) and cleared backgroundDirty.
DefaultEngineRedrawsOnce ==
    (/\ callerConfig = EmptyObj
     /\ ~fx.reconfigured
     /\ thinkingAnimationTime >= 16)
    => /\ fx.bgDraws = 1
       /\ ~backgroundDirty

\* The avatar layers the last operation drew.
AvatarDraws == SelectSeq(fx.draws, LAMBDA d : d[1] = "avatar")

\* C14 (as claimed): right after construction with avatarState s,
\* currentState = targetState = s, the transition progress is 1 and
\* backgroundDirty is set; and the first tick of an engine not reconfigured
\* since draws state s alone, at full opacity, with the progress still 1.
InitialStateDrawnAtOnce ==
    /\ fx.op = "constructor" =>
          /\ currentState = config.avatarState
          /\ targetState = config.avatarState
          /\ stateTransitionProgress = 1000
          /\ backgroundDirty
    /\ (fx.rendered /\ ~fx.reconfigured /\ thinkingAnimationTime = 16) =>
          /\ stateTransitionProgress = 1000
          /\ AvatarDraws = << <<"avatar", config.avatarState, 1000>> >>

\* C15 (as claimed): while a transition is under way (progress below 1), no
\* tick lowers the transition progress, whatever ticks and updateConfig calls
\* came before; the easing function maps 0 to 0 and 1 to 1.
TransitionProgressNeverDecreases ==
    /\ [](easeInOutCubic(0) = 0 /\ easeInOutCubic(1000) = 1000)
    /\ [][(fx'.rendered /\ stateTransitionProgress < 1000)
          => stateTransitionProgress' >= stateTransitionProgress]_vars

\* C15 (amended): while a transition is under way, a tick that does not start
\* a new transition (config.avatarState is still the target state) does not
\* lower the transition progress; a tick that starts a new transition restarts
\* the progress at 0; the easing function maps 0 to 0 and 1 to 1.
TransitionProgressMonotoneWithinTransition ==
    /\ [](easeInOutCubic(0) = 0 /\ easeInOutCubic(1000) = 1000)
    /\ [][(fx'.rendered /\ stateTransitionProgress < 1000
             /\ config.avatarState = targetState)
          => stateTransitionProgress' >= stateTransitionProgress]_vars
    /\ [][(fx'.rendered /\ config.avatarState # targetState)
          => stateTransitionProgress' = 0]_vars

\* A transition from speaking to listening is past its midpoint and not yet
\* complete: ticks at 250 ms and 266 ms after its start raised the progress to
\* 0.5 and then to 0.59.
TransitionProgressMonotoneWithinTransitionWitness ==
    /\ fx.op = "tick"
    /\ currentState = Some("speaking")
    /\ targetState = Some("listening")
    /\ now - stateTransitionStartTime = 266
    /\ stateTransitionProgress = 590

\* C16: while avatarSensitivity and avatarSmoothing are as constructed, with
\* sensitivity >= 0 and smoothing in (0, 1], smoothedAudioLevel is within
\* [0, sensitivity] after every operation, in every avatar state and during
\* every transition, for audio samples in [0, 1].
AudioLevelWithinSensitivity ==
    (/\ config.avatarSensitivity = ConstructorConfig(callerConfig).avatarSensitivity
     /\ config.avatarSmoothing = ConstructorConfig(callerConfig).avatarSmoothing
     /\ Val(config.avatarSensitivity) >= 0
     /\ Val(config.avatarSmoothing) \in 1..100)
    => /\ smoothedAudioLevel >= 0
       /\ smoothedAudioLevel <= 10 * Val(config.avatarSensitivity)

\* With sensitivity 2 and smoothing 1, a full-scale sample has brought the
\* level to the upper end of the range, 2.0.
AudioLevelWithinSensitivityWitness ==
    /\ fx.rendered
    /\ fx.sample = 1000
    /\ config.avatarSensitivity = Some(200)
    /\ smoothedAudioLevel = 2000

\* C17: a tick that draws the speaking avatar draws it with radius
\* baseSize + smoothedAudioLevel * (baseSize * expansion - baseSize), for the
\* level as that same tick left it; with avatarSize 80, avatarExpansion 2,
\* sensitivity 1, smoothing 1 and a first sample of 1.0, the radius after the
\* first update step is 160.
SpeakingRadiusFollowsLevel ==
    LET baseSize == Val(config.avatarSize)
        expansion == Val(config.avatarExpansion)
    IN  /\ (fx.rendered /\ DrewAvatar("speaking")) =>
              lastAvatarSize
                = 1000 * baseSize
                    + smoothedAudioLevel * ((baseSize * expansion) \div 100 - baseSize)
        /\ (/\ fx.rendered
             /\ thinkingAnimationTime = 16
             /\ fx.sample = 1000
             /\ config.avatarState = Some("speaking")
             /\ baseSize = 80
             /\ expansion = 200
             /\ config.avatarSensitivity = Some(100)
             /\ config.avatarSmoothing = Some(100))
            => lastAvatarSize = 160 * 1000

\* The example: the first update step, with a sample of 1.0, drew the
\* speaking avatar with radius 160.
SpeakingRadiusFollowsLevelWitness ==
    /\ fx.rendered
    /\ DrewAvatar("speaking")
    /\ thinkingAnimationTime = 16
    /\ fx.sample = 1000
    /\ config.avatarSize = Some(80)
    /\ config.avatarExpansion = Some(200)
    /\ config.avatarSensitivity = Some(100)
    /\ config.avatarSmoothing = Some(100)
    /\ smoothedAudioLevel = 1000
    /\ lastAvatarSize = 160000

----------------------------------------------------------------------------
\* Properties of the background image (checked under SpecImage).

\* Whether image element i has a load or an error callback attached.
HasCallbacks(i) == images[i].onload \/ images[i].onerror

ImageKeyAlwaysHandled ==
    /\ (fx.op = "updateConfig" /\ "backgroundImage" \in DOMAIN fx.patch) =>
          IF fx.patch.backgroundImage \in {None, Some("")}
          THEN /\ backgroundImageElement = None
               /\ \A i \in 1..Len(images) : ~HasCallbacks(i)
          ELSE /\ fx.created = {"image"}
               /\ backgroundImageElement = Some(Len(images))
               /\ images[Len(images)].src = Val(fx.patch.backgroundImage)
    /\ (fx.rendered /\ config.backgroundImage \in {None, Some("")}) =>
          \A i \in 1..Len(fx.draws) : fx.draws[i] # <<"background", Some("image")>>

\* C20: the error handler of the held element clears the engine's image
\* reference and leaves the tick loop, the configuration and the GPU objects
\* alone; a tick draws an image for the background only while the engine
\* holds an element whose load has completed, and the solid colour otherwise;
\* an image element is created by nothing but an updateConfig whose patch
\* carries a non-empty backgroundImage, and every such updateConfig (same URL
\* or new) leaves the engine holding a fresh element that is loading.
ImageFailureAbsorbed ==
    /\ [][(fx'.op = "onerror" /\ fx'.invoked)
          => /\ backgroundImageElement' = None
             /\ UNCHANGED <<config, gpuVars, animationId, frames, isDisposed>>]_vars
    /\ [](\A i \in 1..Len(fx.draws) :
            fx.draws[i] = <<"background", Some("image")>>
            => /\ backgroundImageElement # None
               /\ images[Val(backgroundImageElement)].status = "complete")
    /\ [][Len(images') # Len(images)
          => /\ fx'.op = "updateConfig"
             /\ Get(fx'.patch, "backgroundImage") \notin {None, Some("")}]_vars
    /\ []((fx.op = "updateConfig"
            /\ Get(fx.patch, "backgroundImage") \notin {None, Some("")})
          => /\ fx.created = {"image"}
             /\ backgroundImageElement = Some(Len(images))
             /\ images[Len(images)].status = "loading"
             /\ images[Len(images)].src = Val(fx.patch.backgroundImage))

\* After the load of a.png failed, the loop went on and a tick drew the
\* solid colour for the 'image' background; no further element was created.
ImageFailureAbsorbedWitness ==
    /\ fx.op = "tick"
    /\ fx.rendered
    /\ Len(fx.draws) >= 1
    /\ fx.draws[1] = <<"background", Some("fallback")>>
    /\ Len(images) = 1
    /\ images[1].status = "failed"
    /\ ~images[1].onerror
    /\ backgroundImageElement = None
    /\ config.backgroundType = Some("image")
    /\ animationId # None

----------------------------------------------------------------------------
\* Properties of construction (under SpecConstruct).

NoContext == ~fx.env.context

CompileFails ==
    /\ fx.env.context
    /\ \/ fx.env.vertexShader = "compileError"
       \/ fx.env.fragmentShader = "compileError"

ObjectMissing ==
    /\ fx.env.context
    /\ \/ fx.env.vertexShader = "null"
       \/ fx.env.fragmentShader = "null"
       \/ /\ fx.env.vertexShader = "ok"
          /\ fx.env.fragmentShader = "ok"
          /\ ~fx.env.program

LinkFails ==
    /\ fx.env.context
    /\ fx.env.vertexShader = "ok"
    /\ fx.env.fragmentShader = "ok"
    /\ fx.env.program
    /\ ~fx.env.link

\* C21 as stated: construction throws and yields no engine exactly when the
\* surface gives no context, a shader fails to compile, or the program fails
\* to link.
ConstructionFailsOnThreeCauses ==
    /\ ~fx.constructed <=> (NoContext \/ CompileFails \/ LinkFails)
    /\ (fx.op = "constructor") => (fx.error # None <=> ~fx.constructed)

\* C21: construction throws and yields no engine exactly when the surface
\* gives no context, a shader or the program object cannot be created, a
\* shader fails to compile, or the program fails to link; in every other case
\* it returns an engine, and an engine that was never returned is never
\* operated.
ConstructionFailsOnPlatformFailure ==
    /\ ~fx.constructed <=> (NoContext \/ CompileFails \/ ObjectMissing \/ LinkFails)
    /\ (fx.op = "constructor") => (fx.error # None <=> ~fx.constructed)
    /\ ~fx.constructed => fx.op = "constructor" /\ animationId = None /\ frames = {}

ConstructionFailsOnPlatformFailureWitness ==
    /\ ~fx.constructed
    /\ LinkFails
    /\ fx.error = Some("Program linking error")

----------------------------------------------------------------------------
\* C22: there is no audio sampler before the first connectAudioStream; that
\* call creates it and every later call reuses it, so that at most one
\* sampler is ever created; each executed tick takes exactly one sample from
\* the sampler, and level 0 when there is none.
OneSamplerSampledOncePerTick ==
    /\ fx.analyzers = 0 => ~audioAnalyzer
    /\ fx.op = "connectAudioStream" => audioAnalyzer /\ fx.analyzers = 1
    /\ fx.rendered =>
          /\ fx.audio = IF audioAnalyzer THEN 1 ELSE 0
          /\ ~audioAnalyzer => fx.sample = 0

----------------------------------------------------------------------------
\* C24: an executed tick redraws the background exactly when backgroundDirty
\* is set, or the stored signature differs from the signature of the config,
\* or rotation is on, or the state is thinking.  A redraw clears
\* backgroundDirty, stores the signature and has the canvas uploaded; a tick
\* without redraw keeps the stored signature.
BackgroundRedrawnExactlyWhenNeeded ==
    [][fx'.rendered =>
         LET needed == \/ backgroundDirty
                       \/ lastBackgroundConfig # Some(BackgroundSignature)
                       \/ config.backgroundRotation = Some(TRUE)
                       \/ config.avatarState = Some("thinking")
             redrawn == fx'.bgDraws = fx.bgDraws + 1
         IN  /\ fx'.bgDraws \in {fx.bgDraws, fx.bgDraws + 1}
             /\ redrawn <=> needed
             /\ redrawn <=> (Len(fx'.draws) >= 1 /\ fx'.draws[1][1] = "background")
             /\ redrawn => /\ ~backgroundDirty'
                           /\ lastBackgroundConfig' = Some(BackgroundSignature)
                           /\ "texImage2D" \in fx'.gpu
             /\ ~redrawn => lastBackgroundConfig' = lastBackgroundConfig]_vars

\* The second tick of an engine that was never reconfigured, with rotation
\* off and the thinking state: only the thinking state makes it redraw.
BackgroundRedrawnExactlyWhenNeededWitness ==
    /\ fx.rendered
    /\ ~fx.reconfigured
    /\ config.backgroundRotation = Some(FALSE)
    /\ config.avatarState = Some("thinking")
    /\ thinkingAnimationTime = 32
    /\ fx.bgDraws = 2

----------------------------------------------------------------------------
\* C25: whenever the composition canvas is uploaded to the texture, the only
\* avatar layers on it are those drawn in the same tick.
UploadedCanvasHoldsOnlyThisTicksAvatar ==
    (fx.rendered /\ "texImage2D" \in fx.gpu) => fx.canvasAvatars = fx.painted

----------------------------------------------------------------------------
\* The image element the engine holds has finished loading.
HeldImageLoaded ==
    /\ backgroundImageElement # None
    /\ images[Val(backgroundImageElement)].status = "complete"

HeldImageLoading ==
    /\ backgroundImageElement # None
    /\ images[Val(backgroundImageElement)].status = "loading"

\* C26: with backgroundType 'image', a background drawn while the load is in
\* flight is the fallback colour; and once the load has completed, a tick
\* leaves the image on the composition canvas, or leaves the engine in a state
\* where the next tick redraws the background (so that, with no further
\* configuration change, some later tick draws the image).
ImageShownOnceLoaded ==
    /\ (fx.rendered /\ DrewBackground /\ config.backgroundType = Some("image")
          /\ HeldImageLoading)
         => fx.draws[1] = <<"background", Some("fallback")>>
    /\ (fx.rendered /\ config.backgroundType = Some("image") /\ HeldImageLoaded)
         => \/ fx.canvasBackground = Some(<<"background", Some("image")>>)
            \/ backgroundDirty
            \/ lastBackgroundConfig # Some(BackgroundSignature)
            \/ config.backgroundRotation = Some(TRUE)
            \/ config.avatarState = Some("thinking")

----------------------------------------------------------------------------
\* C27: whenever the config of a live engine holds a non-empty backgroundImage
\* URL, a load of that URL has been started: an image element with that src
\* exists whose load is in flight, has completed or has failed.
StoredImageUrlHasLoad ==
    (~isDisposed /\ config.backgroundImage # None /\ config.backgroundImage # Some(""))
       => \E i \in 1..Len(images) :
             /\ images[i].src = Val(config.backgroundImage)
             /\ images[i].status \in {"loading", "complete", "failed"}

----------------------------------------------------------------------------
\* The fields of the state transition.
transitionVars ==
    <<currentState, targetState, stateTransitionProgress, stateTransitionStartTime>>

\* C28: a tick that finds config.avatarState different from targetState
\* begins a transition (currentState takes the old targetState, targetState
\* takes config.avatarState, the progress becomes 0); a tick that finds them
\* equal begins none, and nothing but a tick changes the transition.
TransitionBeginsOnStateChange ==
    [][/\ (fx'.rendered /\ config.avatarState # targetState) =>
             /\ currentState' = targetState
             /\ targetState' = config.avatarState
             /\ stateTransitionProgress' = 0
             /\ stateTransitionStartTime' = now'
       /\ (fx'.rendered /\ config.avatarState = targetState) =>
             /\ targetState' = targetState
             /\ stateTransitionStartTime' = stateTransitionStartTime
             /\ stateTransitionProgress' >= stateTransitionProgress
             /\ currentState' \in {currentState, targetState}
       /\ ~fx'.rendered => UNCHANGED transitionVars
       /\ fx'.rendered =>
             /\ targetState' = config'.avatarState
             /\ currentState' # targetState' <=> stateTransitionProgress' < 1000]_vars

\* The second tick restarts, towards speaking, a transition towards listening
\* that the first tick began.
TransitionBeginsOnStateChangeWitness ==
    /\ fx.rendered
    /\ thinkingAnimationTime = 32
    /\ currentState = Some("listening")
    /\ targetState = Some("speaking")
    /\ stateTransitionProgress = 0
    /\ stateTransitionStartTime = now

----------------------------------------------------------------------------
\* C29: a tick that runs 500 ms or more after the start of the transition
\* leaves the progress at 1 and currentState = targetState = config.avatarState,
\* and draws only that state, at full opacity.
TransitionCompletesWithinDuration ==
    (fx.rendered /\ now - stateTransitionStartTime >= stateTransitionDuration) =>
        /\ stateTransitionProgress = 1000
        /\ currentState = targetState
        /\ targetState = config.avatarState
        /\ AvatarDraws = << <<"avatar", targetState, 1000>> >>

\* A transition towards listening, completed by the tick that runs exactly
\* 500 ms after its start.
TransitionCompletesWithinDurationWitness ==
    /\ fx.rendered
    /\ now - stateTransitionStartTime = stateTransitionDuration
    /\ targetState = Some("listening")
    /\ currentState = Some("listening")
    /\ stateTransitionProgress = 1000

----------------------------------------------------------------------------
\* C30: the audio level a tick applies is the raw sample when targetState is
\* speaking (also in the middle of a transition into speaking), the raw sample
\* times (1 - progress) when currentState is speaking, targetState is not and
\* the progress is below 1, and 0 in every other case.
AudioGatedByState ==
    fx.rendered =>
        fx.applied =
           IF targetState = Some("speaking") THEN fx.sample
           ELSE IF currentState = Some("speaking") /\ stateTransitionProgress < 1000
                THEN (fx.sample * (1000 - stateTransitionProgress)) \div 1000
                ELSE 0

\* In the middle of a transition into speaking the full sample is applied.
AudioGatedByStateWitness ==
    /\ fx.rendered
    /\ targetState = Some("speaking")
    /\ currentState # Some("speaking")
    /\ stateTransitionProgress > 0
    /\ stateTransitionProgress < 1000
    /\ fx.sample > 0
    /\ fx.applied = fx.sample

----------------------------------------------------------------------------
\* Properties of the React component (under SpecWrapper).

\* C23: the component constructs one engine per mount and starts it once; no
\* re-render or change of props constructs another; unmounting calls dispose()
\* once, and the dispose() is the last call the engine receives.
WrapperOwnsOneEngine ==
    /\ wrapper.engines = 1
    /\ wrapper.starts =
          IF \E i \in 1..Len(wrapper.pending) : wrapper.pending[i] = "start"
          THEN 0 ELSE 1
    /\ wrapper.disposes = IF wrapper.mounted THEN 0 ELSE 1
    /\ wrapper.mounted => wrapper.rendererRef /\ ~isDisposed
    /\ ~wrapper.mounted =>
          /\ ~wrapper.rendererRef
          /\ isDisposed
          /\ fx.op = "dispose"
          /\ frames = {}
          /\ animationId = None

\* A component unmounted after a re-render that changed its config.
WrapperOwnsOneEngineWitness ==
    /\ ~wrapper.mounted
    /\ wrapper.renders >= 2
    /\ Stringify(wrapper.props.config) # Stringify(callerConfig)
    /\ wrapper.disposes = 1

----------------------------------------------------------------------------
\* The avatar has settled in the listening or the thinking state, which is
\* also the state the config asks for.
SettledQuiet ==
    /\ stateTransitionProgress = 1000
    /\ targetState \in {Some("listening"), Some("thinking")}
    /\ config.avatarState = targetState

\* C31: in a tick that starts settled in the listening or the thinking state
\* the audio sample has no influence: whatever the sample, the tick applies
\* level 0 and leaves the same fields, draws and uploads as with sample 0, and
\* smoothedAudioLevel does not increase.
SamplesIgnoredWhenSettledQuiet ==
    [][(fx'.rendered /\ SettledQuiet) =>
          /\ fx'.applied = 0
          /\ smoothedAudioLevel' <= smoothedAudioLevel
          /\ \A a \in DrawSamples : drawAvatar(a, now') = drawAvatar(0, now')
          /\ smoothedAudioLevel' = drawAvatar(0, now').smoothedAudioLevel
          /\ lastAvatarSize' = drawAvatar(0, now').lastAvatarSize
          /\ fx'.draws = drawAvatar(0, now').draws
          /\ ("texImage2D" \in fx'.gpu) = drawAvatar(0, now').textureNeedsUpdate
          /\ SettledQuiet']_vars

\* The third execution of the render body, one second after the transition
\* to listening began and half a second after it completed, with a non-zero
\* sample.
SamplesIgnoredWhenSettledQuietWitness ==
    /\ fx.rendered
    /\ thinkingAnimationTime = 48
    /\ now - stateTransitionStartTime = 1000
    /\ targetState = Some("listening")
    /\ stateTransitionProgress = 1000
    /\ fx.sample > 0
    /\ fx.applied = 0

----------------------------------------------------------------------------
\* C32: a tick that draws the listening or the thinking state (as target or
\* as the state fading out), and a tick that starts with the transition under
\* way, uploads the composition canvas; and textureNeedsUpdate is false at
\* the end of every executed tick.
QuietStatesAlwaysUpload ==
    [][fx'.rendered =>
          /\ ~textureNeedsUpdate'
          /\ stateTransitionProgress < 1000 => "texImage2D" \in fx'.gpu
          /\ (\E i \in 1..Len(fx'.draws) :
                 /\ fx'.draws[i][1] = "avatar"
                 /\ fx'.draws[i][2] \in {Some("listening"), Some("thinking")})
               => "texImage2D" \in fx'.gpu
          /\ textureNeedsUpdate => "texImage2D" \in fx'.gpu]_vars

\* A tick of an engine settled in the listening state with a static
\* background: nothing but the listening routine asks for the upload.
QuietStatesAlwaysUploadWitness ==
    /\ fx.rendered
    /\ "texImage2D" \in fx.gpu
    /\ ~DrewBackground
    /\ thinkingAnimationTime = 48
    /\ now - stateTransitionStartTime = 1000
    /\ targetState = Some("listening")
    /\ AvatarDraws = << <<"avatar", Some("listening"), 1000>> >>

----------------------------------------------------------------------------
\* C33: in a tick that starts settled in the speaking state and does not
\* redraw the background, the canvas is uploaded exactly when the radius
\* differs from the previous tick's by more than 0.5 px, or the audio-fade
\* opacity differs from 1 by more than 0.01 (which, with the fade enabled, is
\* the case for levels up to 0.12).
SpeakingUploadsOnSignificantChange ==
    [][(/\ fx'.rendered
        /\ stateTransitionProgress = 1000
        /\ currentState = Some("speaking")
        /\ targetState = Some("speaking")
        /\ fx'.bgDraws = fx.bgDraws)
       => ("texImage2D" \in fx'.gpu
             <=> \/ Abs(lastAvatarSize' - lastAvatarSize) > 500
                 \/ /\ config.avatarFadeWithAudio = Some(TRUE)
                    /\ smoothedAudioLevel' <= 120)]_vars

\* A tick of an engine settled in speaking with a static background whose
\* radius did not move: nothing is uploaded.
SpeakingUploadsOnSignificantChangeWitness ==
    /\ fx.rendered
    /\ ~DrewBackground
    /\ "texImage2D" \notin fx.gpu
    /\ targetState = Some("speaking")
    /\ stateTransitionProgress = 1000
    /\ AvatarDraws = << <<"avatar", Some("speaking"), 1000>> >>

----------------------------------------------------------------------------
\* C34: with a static background, settled in the speaking state and with the
\* audio fade off, the radius of the circle in the texture last uploaded is
\* within 0.5 px of the radius last drawn on the composition canvas.
UploadedRadiusTracksCanvas ==
    (/\ fx.rendered
     /\ config.backgroundRotation = Some(FALSE)
     /\ config.avatarFadeWithAudio = Some(FALSE)
     /\ currentState = Some("speaking")
     /\ targetState = Some("speaking")
     /\ stateTransitionProgress = 1000)
    => Abs(lastAvatarSize - fx.uploadedAvatarSize) <= 500

\* C35: in every tick, a transition with progress p draws the outgoing state
\* first and the incoming state second, and what each of them puts on the
\* canvas has effective opacity 1 - p and p (the blend opacity applied once);
\* a settled avatar draws only the target state, at opacity 1.
BlendOpacityAppliedOnce ==
    fx.rendered =>
        /\ AvatarDraws =
             IF stateTransitionProgress = 1000
             THEN << <<"avatar", targetState, 1000>> >>
             ELSE << <<"avatar", currentState, 1000 - stateTransitionProgress>>,
                     <<"avatar", targetState, stateTransitionProgress>> >>
        /\ \A i \in 1..Len(fx.prims) :
              EffectiveOpacity(fx.prims[i]) =
                 IF stateTransitionProgress = 1000 THEN 1000
                 ELSE IF fx.prims[i].state = targetState
                 THEN stateTransitionProgress
                 ELSE 1000 - stateTransitionProgress

\* C36: in every tick that draws the listening state an inner glow is put on
\* the canvas, and its width lies between listeningPulseBase -
\* listeningPulseAmplitude and listeningPulseBase + listeningPulseAmplitude.
ListeningGlowDrawn ==
    (fx.rendered /\ DrewAvatar("listening")) =>
        \E i \in 1..Len(fx.prims) :
           /\ fx.prims[i].state = Some("listening")
           /\ fx.prims[i].width >= Configured("listeningPulseBase", 50)
                                   - Configured("listeningPulseAmplitude", 35)
           /\ fx.prims[i].width <= Configured("listeningPulseBase", 50)
                                   + Configured("listeningPulseAmplitude", 35)

\* C37: in every tick that draws the thinking state on a square avatar the
\* border is at (thinkingAnimationClock * thinkingBorderSpeed) mod perimeter,
\* its moving segment is thinkingBorderLength * perimeter long and
\* thinkingBorderTrailSegments trailing segments follow it, for the configured
\* values; and the clock advances by 16 in every executed tick and in no
\* other step.
ThinkingPerimeter ==
    ((backgroundCanvas.width - 20) + (backgroundCanvas.height - 20)) * 2

ThinkingBorderAsConfigured ==
    (fx.rendered /\ DrewAvatar("thinking") /\ config.avatarShape = Some("square")) =>
        \A i \in 1..Len(fx.prims) :
           fx.prims[i].state = Some("thinking") =>
              /\ fx.prims[i].position =
                    ((thinkingAnimationTime * Configured("thinkingBorderSpeed", 80))
                        \div 10) % (ThinkingPerimeter * 10)
              /\ fx.prims[i].segment =
                    (ThinkingPerimeter * 10
                        * Configured("thinkingBorderLength", 15)) \div 100
              /\ fx.prims[i].trail = Configured("thinkingBorderTrailSegments", 10)

ThinkingBorderFollowsConfig ==
    /\ []ThinkingBorderAsConfigured
    /\ [][thinkingAnimationTime' =
             thinkingAnimationTime + (IF fx'.rendered THEN 16 ELSE 0)]_vars

\* C38: from the end of construction until dispose (after every resize and
\* every updateConfig) the drawing surface, the composition canvas and the
\* stored config have the same width and the same height.
SurfaceCanvasConfigAgree ==
    ~isDisposed =>
        /\ canvas = backgroundCanvas
        /\ config.width = Some(canvas.width)
        /\ config.height = Some(canvas.height)

\* C39: when construction has failed at shader compilation or at program
\* linking, no GPU object created during that construction (shader, program,
\* buffer or texture) is still allocated.
FailedConstructionLeavesNoGpuObject ==
    (/\ fx.op = "constructor"
     /\ fx.error # None
     /\ CompileFails \/ LinkFails)
    => AllocatedAfterConstruction(fx.env) = {}

====
